---- MODULE Spec2Model ----
(***************************************************************************)
(* State-machine model of the audio visualizer's analysis-to-visual        *)
(* pipeline:                                                               *)
(*   - WMPVisualizationManager (src/src/lib/visualization-manager.ts):     *)
(*     bars and circular frame generation, temporal smoother, peak         *)
(*     tracker, color mapper, updateConfig and reset;                      *)
(*   - WMPAudioEngine.convertToLogarithmic (src/unnamed/part_002): the     *)
(*     band mapper.                                                        *)
(*                                                                         *)
(* Numbers.  JavaScript numbers are modelled as exact rationals <<n, d>>   *)
(* with d > 0 in lowest terms; <<0, 0>> stands for NaN.  Rounding of       *)
(* IEEE doubles is not modelled.  The point coordinates x, y of a circular *)
(* frame (cos/sin of an angle) are not modelled; the other fields of the   *)
(* frame are.                                                              *)
(*                                                                         *)
(* Indices.  Arrays are sequences: band i of the code (0-based) is entry   *)
(* i + 1 of the sequence.                                                  *)
(***************************************************************************)
EXTENDS Integers, Sequences, FiniteSets, TLC, Bags

VARIABLES
  config,          \* WMPVisualizationManager.config
  peakValues,      \* WMPVisualizationManager.peakValues
  peakHoldFrames,  \* WMPVisualizationManager.peakHoldFrames
  smoothedValues,  \* WMPVisualizationManager.smoothedValues
  rotation,        \* WMPVisualizationManager.rotation
  out,             \* the value returned by the latest call ("none": no frame)
  frequencyData,   \* WMPAudioEngine.frequencyData: the raw magnitude snapshot
  logarithmic,     \* the band values convertToLogarithmic returned
  binIndex,        \* history: the logIndex convertToLogarithmic computed per band
  hist,            \* history: the analysed bars frames since construction
  steps,           \* history: number of operations so far
  lastData,        \* history: the input of the latest call (band values; in
                   \* SpecGlow the waveform, in SpecDims the canvas size) or
                   \* the state before it (SpecIndex, SpecEngine)
  stepInput,       \* history: the heights so far are the step 1, 0, 0, ...
  twin,            \* history: a manager with peakHold on given the same frames
  audioElement,    \* WMPAudioEngine.audioElement: Null or its paused, currentTime
  gainNode,        \* WMPAudioEngine.gainNode: Null or [gain |-> gain.value]
  enginePeaks,     \* WMPAudioEngine.peaks
  playPromise,     \* the promise of the latest play(): "none", "pending", "resolved"
  reported,        \* the AudioState of the latest getState() or notification
  stateListeners,  \* WMPAudioEngine.stateListeners
  heard,           \* history, per listener: calls, the times the latest
                   \* operation invoked it; state, what it was last invoked
                   \* with; added, the addStateListener calls that named it
                   \* since it was last removed
  visualizerType,  \* Home: the visualizerType state
  canvas,          \* WMPVisualizer: Null before the mount, then what is drawn
  vizState,        \* WMPVisualizer: isPlaying, currentTime, duration, volume,
                   \* hasAudio
  wmpVisualizer,   \* window.wmpVisualizer: Null or what its closures captured
  controls,        \* PlayerControls: isPlaying, currentTime, duration, volume
  audioElementRef, \* WMPVisualizer.audioElementRef.current
  analyserRef,     \* WMPVisualizer.analyserRef.current is set
  animationFrameRef, \* WMPVisualizer.animationFrameRef.current: Null or the
                   \* id of the latest requestAnimationFrame
  rafQueue,        \* the animation frame callbacks that are pending: id and
                   \* the visualizer type of the render they belong to
  console,         \* the messages logged to the console so far
  effects,         \* the effects of WMPVisualizer that wait to run
  slider,          \* history: the latest move of the volume slider
  provider         \* AudioProvider: isVisualizationActive, frequencyData,
                   \* waveformData, animationFrame (animationFrameRef.current,
                   \* the pending callback), deps (the dependencies its
                   \* start/stop effect last ran with)

playerVars == <<audioElement, gainNode, enginePeaks, playPromise, reported,
                stateListeners, heard>>
uiVars == <<visualizerType, canvas, vizState, wmpVisualizer, controls,
            audioElementRef, analyserRef, animationFrameRef, rafQueue, console,
            effects, slider, provider>>
loopVars == <<animationFrameRef, rafQueue>>
appVars == <<playerVars, uiVars>>

vars == <<config, peakValues, peakHoldFrames, smoothedValues, rotation, out,
          frequencyData, logarithmic, binIndex, hist, steps, lastData,
          stepInput, twin, appVars>>

mgrVars == <<config, peakValues, peakHoldFrames, smoothedValues, rotation>>
engineVars == <<frequencyData, logarithmic, binIndex>>

(***************************************************************************)
(* Bounds of the model.                                                    *)
(***************************************************************************)
MaxSteps == 2        \* operations per behaviour of Spec
MaxSmoothSteps == 4  \* operations per behaviour of SpecSmooth
MaxDecayFrames == 2  \* analysed frames of SpecPeak after the hold has run out
MaxBins == 3         \* longest small snapshot of SpecMap
ColorSteps == 20     \* SpecColor feeds the band values k / ColorSteps
MaxColorFrames == 2  \* analysed frames per behaviour of SpecColor

(***************************************************************************)
(* Integer helpers.                                                        *)
(***************************************************************************)
Abs(n) == IF n < 0 THEN -n ELSE n
Min(a, b) == IF a < b THEN a ELSE b
Max(a, b) == IF a < b THEN b ELSE a

RECURSIVE GCD(_, _)
GCD(a, b) == IF b = 0 THEN a ELSE GCD(b, a % b)

(***************************************************************************)
(* JavaScript numbers as rationals.                                        *)
(***************************************************************************)
NaN == <<0, 0>>
IsNaN(a) == a[2] = 0

R(n, d) ==
  IF d = 0 THEN NaN
  ELSE LET g == GCD(Abs(n), Abs(d))
           s == IF d < 0 THEN -1 ELSE 1
       IN <<s * (n \div g), Abs(d) \div g>>

Zero == <<0, 1>>
One == <<1, 1>>
RInt(n) == <<n, 1>>

RAdd(a, b) ==
  IF IsNaN(a) \/ IsNaN(b) THEN NaN
  ELSE LET g == GCD(a[2], b[2])
       IN R(a[1] * (b[2] \div g) + b[1] * (a[2] \div g), (a[2] \div g) * b[2])
RNeg(a) == IF IsNaN(a) THEN NaN ELSE <<-a[1], a[2]>>
RSub(a, b) == RAdd(a, RNeg(b))
RMul(a, b) ==
  IF IsNaN(a) \/ IsNaN(b) THEN NaN
  ELSE LET g1 == GCD(Abs(a[1]), b[2])
           g2 == GCD(Abs(b[1]), a[2])
       IN <<(a[1] \div g1) * (b[1] \div g2), (a[2] \div g2) * (b[2] \div g1)>>
\* a / b; 0 / 0 is NaN (no other division by zero arises)
RDiv(a, b) ==
  IF IsNaN(a) \/ IsNaN(b) \/ b[1] = 0 THEN NaN
  ELSE RMul(a, R(b[2], b[1]))
\* comparisons: false as soon as an operand is NaN
RLt(a, b) == ~IsNaN(a) /\ ~IsNaN(b) /\ a[1] * b[2] < b[1] * a[2]
RGt(a, b) == RLt(b, a)
RLe(a, b) == ~IsNaN(a) /\ ~IsNaN(b) /\ a[1] * b[2] <= b[1] * a[2]
RGe(a, b) == RLe(b, a)
\* Math.min, Math.max, Math.abs: NaN if an argument is NaN
RMin(a, b) == IF IsNaN(a) \/ IsNaN(b) THEN NaN ELSE IF RLt(b, a) THEN b ELSE a
RMax(a, b) == IF IsNaN(a) \/ IsNaN(b) THEN NaN ELSE IF RLt(a, b) THEN b ELSE a
RAbs(a) == IF IsNaN(a) THEN NaN ELSE <<Abs(a[1]), a[2]>>
\* Math.floor of a rational that is not NaN
RFloor(a) == a[1] \div a[2]
\* the remainder a % 2 of JavaScript: the sign of the dividend
RMod2(a) ==
  IF IsNaN(a) THEN NaN
  ELSE LET q == Abs(a[1]) \div (2 * a[2])
           r == <<Abs(a[1]) - 2 * a[2] * q, a[2]>>
       IN IF a[1] < 0 THEN RNeg(r) ELSE r
InUnit(a) == RLe(Zero, a) /\ RLe(a, One)

(***************************************************************************)
(* Color mapper.                                                           *)
(***************************************************************************)
HsvToRgb(hue, s, v) ==
  LET h == RDiv(hue, RInt(60))
      c == RMul(v, s)
      x == RMul(c, RSub(One, RAbs(RSub(RMod2(h), One))))
      m == RSub(v, c)
      rgb == IF RGe(h, Zero) /\ RLt(h, RInt(1)) THEN <<c, x, Zero>>
             ELSE IF RGe(h, RInt(1)) /\ RLt(h, RInt(2)) THEN <<x, c, Zero>>
             ELSE IF RGe(h, RInt(2)) /\ RLt(h, RInt(3)) THEN <<Zero, c, x>>
             ELSE IF RGe(h, RInt(3)) /\ RLt(h, RInt(4)) THEN <<Zero, x, c>>
             ELSE IF RGe(h, RInt(4)) /\ RLt(h, RInt(5)) THEN <<x, Zero, c>>
             ELSE <<c, Zero, x>>
  IN <<RAdd(rgb[1], m), RAdd(rgb[2], m), RAdd(rgb[3], m)>>

\* variants: the hue sweep of the center glow; no minimum brightness
CalculateWMPColor_GlowSweep(intensity) ==
  LET hue == RSub(RInt(120), RMul(intensity, RInt(240)))
      value == RMax(R(3, 10), intensity)
  IN HsvToRgb(hue, One, value)

CalculateWMPColor_NoFloor(intensity) ==
  LET hue == RSub(RInt(120), RMul(intensity, RInt(120)))
  IN HsvToRgb(hue, One, intensity)

CalculateWMPColor(intensity) ==
  LET hue == RSub(RInt(120), RMul(intensity, RInt(120)))
      value == RMax(R(3, 10), intensity)
  IN HsvToRgb(hue, One, value)

CalculateModernColor(intensity) ==
  IF RLt(intensity, R(1, 2))
  THEN <<Zero, RMul(intensity, RInt(2)), One>>
  ELSE <<RMul(RSub(intensity, R(1, 2)), RInt(2)), One, One>>

CalculateWaveColor(cfg, amplitude) ==
  IF cfg.colorScheme = "wmp"
  THEN CalculateWMPColor(amplitude)
  ELSE CalculateModernColor(amplitude)

CalculateCenterGlowColor(intensity) ==
  HsvToRgb(RSub(RInt(120), RMul(intensity, RInt(240))), One, One)

(***************************************************************************)
(* Natural numbers of any size, as sequences of digits in base BASE, least *)
(* significant first, without leading zeros: the band mapper's index is    *)
(* decided exactly by comparing integer powers.                            *)
(***************************************************************************)
BASE == 2048

RECURSIVE BigOfInt(_)
BigOfInt(n) == IF n = 0 THEN <<>> ELSE <<n % BASE>> \o BigOfInt(n \div BASE)

\* the sum of a[j] * b[k + 1 - j] over j in i..hi, as the size of the bag
\* that holds j that many times and once more
ConvSum(a, b, k, i, hi) ==
  IF i > hi THEN 0
  ELSE BagCardinality([j \in i..hi |-> a[j] * b[k + 1 - j] + 1]) - (hi - i + 1)

\* one pass of carrying: every digit keeps its part below BASE and takes
\* what the digit below it carries
BigCarryPass(d) ==
  <<>> \o [k \in 1..Len(d) |->
            (d[k] % BASE) + (IF k > 1 THEN d[k - 1] \div BASE ELSE 0)]

\* passes until every digit is below BASE; the top digit of d is 0 at the
\* start and takes the last carry
RECURSIVE BigCarryFrom(_)
BigCarryFrom(d) ==
  IF \A k \in 1..Len(d) : d[k] < BASE THEN d ELSE BigCarryFrom(BigCarryPass(d))

\* the digits of the number whose digit sums are raw (its top digit is not 0)
BigCarry(raw) ==
  LET n == Len(raw)
      d == BigCarryFrom(Append(raw, 0))
  IN IF d[n + 1] = 0 THEN SubSeq(d, 1, n) ELSE d

\* the digit sums are computed before the carries
BigMul(a, b) ==
  IF Len(a) = 0 \/ Len(b) = 0 THEN <<>>
  ELSE LET n == Len(a)
           m == Len(b)
           raw == <<>> \o [k \in 1..(n + m - 1) |->
                             ConvSum(a, b, k, Max(1, k + 1 - m), Min(n, k))]
       IN IF Len(raw) = 0 THEN <<>> ELSE BigCarry(raw)

\* the largest power of 2 that is at most e (0 for e = 0)
RECURSIVE TopWeight(_)
TopWeight(e) == IF e < 2 THEN e ELSE 2 * TopWeight(e \div 2)

\* one binary digit of the exponent: the square, times a if the digit is 1
BigPowStep(acc, a, odd) ==
  LET sq == BigMul(acc, acc)
  IN IF odd /\ Len(sq) > 0 THEN BigMul(sq, a) ELSE sq

\* the binary digits of e from weight w down, acc being a to the digits above
RECURSIVE BigPowFrom(_, _, _, _)
BigPowFrom(acc, a, e, w) ==
  IF w = 0 \/ Len(acc) = 0 THEN acc
  ELSE BigPowFrom(BigPowStep(acc, a, (e \div w) % 2 = 1), a, e, w \div 2)

\* a^e by squaring
BigPow(a, e) == BigPowFrom(<<1>>, a, e, TopWeight(e))

\* a <= b for numbers of as many digits: the most significant digit that
\* differs decides
BigLeqFrom(a, b) ==
  LET differ == {k \in 1..Len(a) : a[k] # b[k]}
  IN \/ differ = {}
     \/ LET top == CHOOSE k \in differ : \A j \in differ : j <= k
        IN a[top] < b[top]

BigLeq(a, b) ==
  IF Len(a) # Len(b) THEN Len(a) < Len(b) ELSE BigLeqFrom(a, b)

(***************************************************************************)
(* WMPAudioEngine: the band mapper.                                        *)
(***************************************************************************)
FREQUENCY_BANDS == 64

\* k <= (binCount^(num/den) - 1) / (binCount - 1) * binCount for binCount >= 2:
\* that is (k * (binCount - 1) + binCount)^power <= limit, where power is
\* den / g, limit is binCount^((den + num) / g) and g is gcd(den, num)
AtMostWarped(k, binCount, power, limit) ==
  BigLeq(BigPow(BigOfInt(k * (binCount - 1) + binCount), power), limit)

\* the largest k in lo..hi with k <= the warped value (lo is one such k)
RECURSIVE FloorWarped(_, _, _, _, _)
FloorWarped(lo, hi, binCount, power, limit) ==
  IF lo = hi THEN lo
  ELSE IF AtMostWarped((lo + hi + 1) \div 2, binCount, power, limit)
  THEN FloorWarped((lo + hi + 1) \div 2, hi, binCount, power, limit)
  ELSE FloorWarped(lo, (lo + hi + 1) \div 2 - 1, binCount, power, limit)

\* Math.floor((Math.pow(binCount, num / den) - 1) / (binCount - 1) * binCount)
\* for binCount >= 2 and 0 <= num <= den; the value is at most binCount
WarpedIndex(binCount, num, den) ==
  LET g == GCD(den, num)
      limit == BigPow(BigOfInt(binCount), (den + num) \div g)
  IN FloorWarped(0, binCount, binCount, den \div g, limit)

\* variants: the exponent runs up to 1 in the last band; the bands are
\* spread evenly over the bins; the exponent runs from high to low
LogIndex_LastBand(binCount, i) ==
  WarpedIndex(binCount, i, FREQUENCY_BANDS - 1)

LogIndex_Linear(binCount, i) == (i * binCount) \div FREQUENCY_BANDS

LogIndex_Reversed(binCount, i) ==
  WarpedIndex(binCount, FREQUENCY_BANDS - 1 - i, FREQUENCY_BANDS)

\* logIndex of band i: the exponent is i / FREQUENCY_BANDS
LogIndex(binCount, i) == WarpedIndex(binCount, i, FREQUENCY_BANDS)

\* a variant that scales the byte like a waveform sample
ByteValue_Waveform(byte) == R(byte, 128)

\* value / 255
ByteValue(byte) == R(byte, 255)

\* convertToLogarithmic(frequencyData): the band values, and the logIndex
\* computed for each band.  Below two bins the index is NaN or the minimum
\* with binCount - 1 = -1, the element read is undefined and the value NaN;
\* the index is then recorded as -1.
ConvertToLogarithmic(fd) ==
  LET binCount == Len(fd)
      indices == [b \in 1..FREQUENCY_BANDS |->
                    IF binCount < 2 THEN -1 ELSE LogIndex(binCount, b - 1)]
  IN [indices |-> indices,
      values |-> [b \in 1..FREQUENCY_BANDS |->
                    IF binCount < 2 THEN NaN
                    ELSE ByteValue(fd[Min(indices[b], binCount - 1) + 1])]]

(***************************************************************************)
(* WMPVisualizationManager.                                                *)
(***************************************************************************)
PEAK_HOLD_FRAMES == 30
POINT_COUNT == 256

Null == [null |-> TRUE]

Zeros(n) == [i \in 1..n |-> Zero]

\* what initializeArrays stores for a config
InitializeArrays(cfg) ==
  [peakValues |-> Zeros(cfg.barCount),
   peakHoldFrames |-> [i \in 1..cfg.barCount |-> 0],
   smoothedValues |-> Zeros(cfg.barCount)]

\* Math.max(0, Math.min(1, height))
Clamp01(height) == RMax(Zero, RMin(One, height))

\* logarithmicData[i] || 0 (i is 0-based): a missing entry, NaN and 0 give 0
ValueOrZero(data, i) ==
  IF i + 1 <= Len(data) /\ ~IsNaN(data[i + 1]) THEN data[i + 1] ELSE Zero

\* a variant that takes the factor as the weight of the old value
Smoothed_DecayConstant(cfg, oldValue, newValue) ==
  RAdd(RMul(oldValue, cfg.smoothing),
       RMul(newValue, RSub(One, cfg.smoothing)))

\* old + (new - old) * smoothing
Smoothed(cfg, oldValue, newValue) ==
  RAdd(oldValue, RMul(RSub(newValue, oldValue), cfg.smoothing))

\* smoothValue(newValue, index) on the smoother state sv; index is 0-based and
\* -1 stands for the NaN that i % 0 gives: NaN >= length is false, the old
\* value read is undefined and the result NaN; the array elements stay.
SmoothValue(cfg, sv, newValue, index) ==
  IF index >= Len(sv) THEN [value |-> newValue, state |-> sv]
  ELSE IF index < 0 THEN [value |-> NaN, state |-> sv]
  ELSE LET smoothed == Smoothed(cfg, sv[index + 1], newValue)
       IN [value |-> smoothed, state |-> [sv EXCEPT ![index + 1] = smoothed]]

\* a variant of the loop body that smooths the raw value and amplifies the
\* smoothed value
BarHeight_SmoothFirst(cfg, acc, data) ==
  LET i == Len(acc.heights)
      sm == SmoothValue(cfg, acc.state, ValueOrZero(data, i), i)
  IN [heights |-> Append(acc.heights, Clamp01(RMul(sm.value, cfg.amplification))),
      state |-> sm.state]

\* one iteration of the loop of calculateBarHeights: bar i is pushed after
\* the bars 0 .. i-1, so i is the number of heights so far
BarHeight(cfg, acc, data) ==
  LET i == Len(acc.heights)
      value == ValueOrZero(data, i)
      amplified == RMul(value, cfg.amplification)
      sm == SmoothValue(cfg, acc.state, amplified, i)
  IN [heights |-> Append(acc.heights, Clamp01(sm.value)), state |-> sm.state]

\* the loop over i < n from the bars pushed so far, evaluated by halves of
\* the remaining range to keep the depth of the evaluation small
RECURSIVE BarHeightsFrom(_, _, _, _)
BarHeightsFrom(cfg, acc, data, n) ==
  IF Len(acc.heights) >= n THEN acc
  ELSE IF n - Len(acc.heights) = 1 THEN BarHeight(cfg, acc, data)
  ELSE BarHeightsFrom(cfg,
         BarHeightsFrom(cfg, acc, data, (Len(acc.heights) + n) \div 2),
         data, n)

\* a variant whose loop stops at the end of the supplied data
CalculateBarHeights_OverData(cfg, sv, data) ==
  BarHeightsFrom(cfg, [heights |-> <<>>, state |-> sv], data,
                 Min(Len(data), cfg.barCount))

\* calculateBarHeights: the heights of the frame and the smoother state left
CalculateBarHeights(cfg, sv, data) ==
  BarHeightsFrom(cfg, [heights |-> <<>>, state |-> sv], data, cfg.barCount)

\* variants of the band step: the hold is checked before the comparison; the
\* hold lasts one frame less
PeakStep_HoldFirst(cfg, value, holdFrames, currentHeight) ==
  IF holdFrames > 0
  THEN [value |-> value, hold |-> holdFrames - 1]
  ELSE IF RGt(currentHeight, value)
  THEN [value |-> currentHeight, hold |-> PEAK_HOLD_FRAMES]
  ELSE [value |-> RMul(value, cfg.peakDecay), hold |-> holdFrames]

PeakStep_ShortHold(cfg, value, holdFrames, currentHeight) ==
  IF RGt(currentHeight, value)
  THEN [value |-> currentHeight, hold |-> PEAK_HOLD_FRAMES - 1]
  ELSE IF holdFrames > 0
  THEN [value |-> value, hold |-> holdFrames - 1]
  ELSE [value |-> RMul(value, cfg.peakDecay), hold |-> holdFrames]

\* a variant that tracks the peak only while it is shown
PeakStep_OnlyWhenShown(cfg, value, holdFrames, currentHeight) ==
  IF ~cfg.peakHold
  THEN [value |-> value, hold |-> holdFrames]
  ELSE IF RGt(currentHeight, value)
  THEN [value |-> currentHeight, hold |-> PEAK_HOLD_FRAMES]
  ELSE IF holdFrames > 0
  THEN [value |-> value, hold |-> holdFrames - 1]
  ELSE [value |-> RMul(value, cfg.peakDecay), hold |-> holdFrames]

\* a variant that counts the hold down in every frame without a new peak
PeakStep_CountBelowZero(cfg, value, holdFrames, currentHeight) ==
  IF RGt(currentHeight, value)
  THEN [value |-> currentHeight, hold |-> PEAK_HOLD_FRAMES]
  ELSE [value |-> IF holdFrames > 0 THEN value ELSE RMul(value, cfg.peakDecay),
        hold |-> holdFrames - 1]

\* one band of calculatePeaks: compare, then hold, then decay
PeakStep(cfg, value, holdFrames, currentHeight) ==
  IF RGt(currentHeight, value)
  THEN [value |-> currentHeight, hold |-> PEAK_HOLD_FRAMES]
  ELSE IF holdFrames > 0
  THEN [value |-> value, hold |-> holdFrames - 1]
  ELSE [value |-> RMul(value, cfg.peakDecay), hold |-> holdFrames]

\* calculatePeaks: the loop over heights.length
CalculatePeaks(cfg, pv, phf, heights) ==
  LET step == [i \in 1..Len(heights) |-> PeakStep(cfg, pv[i], phf[i], heights[i])]
  IN [peaks |-> [i \in 1..Len(heights) |->
                   IF cfg.peakHold THEN step[i].value ELSE Zero],
      peakValues |-> [i \in 1..Len(pv) |->
                   IF i <= Len(heights) THEN step[i].value ELSE pv[i]],
      peakHoldFrames |-> [i \in 1..Len(phf) |->
                   IF i <= Len(heights) THEN step[i].hold ELSE phf[i]]]

CalculateBarColors(cfg, heights, peaks) ==
  [i \in 1..Len(heights) |->
     LET colorValue == RMax(heights[i], peaks[i])
     IN IF cfg.colorScheme = "wmp"
        THEN CalculateWMPColor(colorValue)
        ELSE CalculateModernColor(colorValue)]

\* a variant that reports the stored peaks in the silence frame
GenerateSilentBars_StoredPeaks ==
  [kind |-> "silentBars",
   heights |-> Zeros(config.barCount),
   peaks |-> [i \in 1..config.barCount |->
                IF i <= Len(peakValues) THEN peakValues[i] ELSE Zero],
   colors |-> [i \in 1..config.barCount |-> <<R(1, 5), R(1, 5), R(1, 5)>>]]

GenerateSilentBars ==
  [kind |-> "silentBars",
   heights |-> Zeros(config.barCount),
   peaks |-> Zeros(config.barCount),
   colors |-> [i \in 1..config.barCount |-> <<R(1, 5), R(1, 5), R(1, 5)>>]]

\* a variant that analyses a silence frame as a frame without band values
GenerateBarsVisualization_SilenceAnalysed(freqData) ==
  LET data == IF freqData = Null THEN <<>> ELSE freqData.logarithmic
      h == CalculateBarHeights(config, smoothedValues, data)
      p == CalculatePeaks(config, peakValues, peakHoldFrames, h.heights)
      colors == CalculateBarColors(config, h.heights, p.peaks)
  IN /\ out' = IF freqData = Null THEN GenerateSilentBars
               ELSE [kind |-> "bars", heights |-> h.heights, peaks |-> p.peaks,
                     colors |-> colors]
     /\ smoothedValues' = h.state
     /\ peakValues' = p.peakValues
     /\ peakHoldFrames' = p.peakHoldFrames
     /\ UNCHANGED <<config, rotation>>

\* generateBarsVisualization(freqData): the frame returned and the state left
GenerateBarsVisualization(freqData) ==
  IF freqData = Null
  THEN /\ out' = GenerateSilentBars
       /\ UNCHANGED mgrVars
  ELSE LET h == CalculateBarHeights(config, smoothedValues, freqData.logarithmic)
           p == CalculatePeaks(config, peakValues, peakHoldFrames, h.heights)
           colors == CalculateBarColors(config, h.heights, p.peaks)
       IN /\ out' = [kind |-> "bars", heights |-> h.heights, peaks |-> p.peaks,
                     colors |-> colors]
          /\ smoothedValues' = h.state
          /\ peakValues' = p.peakValues
          /\ peakHoldFrames' = p.peakHoldFrames
          /\ UNCHANGED <<config, rotation>>

\* getWaveformData's normalisation of the byte samples: (value - 128) / 128
Normalize(wave) == [k \in 1..Len(wave) |-> R(wave[k] - 128, 128)]

RECURSIVE SumAbs(_, _)
SumAbs(waveform, k) ==
  IF k = 0 THEN Zero ELSE RAdd(RAbs(waveform[k]), SumAbs(waveform, k - 1))

\* calculateAverageAmplitude: total / length, NaN (0 / 0) for an empty waveform
CalculateAverageAmplitude(waveform) ==
  RDiv(SumAbs(waveform, Len(waveform)), RInt(Len(waveform)))

\* one iteration of the loop of generateCircularVisualization: point i is
\* pushed after the points 0 .. i-1, so i is the number of points so far
CircularPoint(cfg, acc, normalized) ==
  LET i == Len(acc.points)
      waveIndex == (i * Len(normalized)) \div POINT_COUNT
      amplitude == RAbs(ValueOrZero(normalized, waveIndex))
      index == IF Len(acc.state) = 0 THEN -1 ELSE i % Len(acc.state)
      sm == SmoothValue(cfg, acc.state, amplitude, index)
  IN [points |-> Append(acc.points,
                        [amplitude |-> sm.value,
                         color |-> CalculateWaveColor(cfg, sm.value)]),
      state |-> sm.state]

\* the loop up to point n (exclusive) from the points pushed so far,
\* evaluated by halves of the remaining range to keep the depth of the
\* evaluation small
RECURSIVE CircularPointsUpTo(_, _, _, _)
CircularPointsUpTo(cfg, acc, normalized, n) ==
  IF Len(acc.points) >= n THEN acc
  ELSE IF n - Len(acc.points) = 1 THEN CircularPoint(cfg, acc, normalized)
  ELSE CircularPointsUpTo(cfg,
         CircularPointsUpTo(cfg, acc, normalized, (Len(acc.points) + n) \div 2),
         normalized, n)

\* the loop over the 256 points
CircularPointsFrom(cfg, acc, normalized) ==
  CircularPointsUpTo(cfg, acc, normalized, POINT_COUNT)

\* a variant that reports the stored rotation in the silence frame
GenerateSilentCircular_StoredRotation(width, height) ==
  [kind |-> "silentCircular",
   center |-> <<R(width, 2), R(height, 2)>>,
   baseRadius |-> RMul(RMin(R(width, 2), R(height, 2)), R(3, 10)),
   points |-> [i \in 1..POINT_COUNT |->
                 [amplitude |-> Zero, color |-> <<R(3, 10), R(3, 10), R(3, 10)>>]],
   rotation |-> rotation,
   centerGlow |-> [intensity |-> Zero, color |-> <<Zero, Zero, Zero>>]]

GenerateSilentCircular(width, height) ==
  [kind |-> "silentCircular",
   center |-> <<R(width, 2), R(height, 2)>>,
   baseRadius |-> RMul(RMin(R(width, 2), R(height, 2)), R(3, 10)),
   points |-> [i \in 1..POINT_COUNT |->
                 [amplitude |-> Zero, color |-> <<R(3, 10), R(3, 10), R(3, 10)>>]],
   rotation |-> Zero,
   centerGlow |-> [intensity |-> Zero, color |-> <<Zero, Zero, Zero>>]]

\* generateCircularVisualization(waveformData, width, height)
GenerateCircularVisualization(waveformData, width, height) ==
  IF waveformData = Null
  THEN /\ out' = GenerateSilentCircular(width, height)
       /\ UNCHANGED mgrVars
  ELSE LET avgAmplitude == CalculateAverageAmplitude(waveformData.normalized)
           newRotation == RAdd(rotation,
                               RAdd(R(1, 100), RMul(avgAmplitude, R(5, 100))))
           pts == CircularPointsFrom(config,
                                     [points |-> <<>>, state |-> smoothedValues],
                                     waveformData.normalized)
       IN /\ rotation' = newRotation
          /\ smoothedValues' = pts.state
          /\ out' = [kind |-> "circular",
                     center |-> <<R(width, 2), R(height, 2)>>,
                     baseRadius |-> RMul(RMin(R(width, 2), R(height, 2)), R(3, 10)),
                     points |-> pts.points,
                     rotation |-> newRotation,
                     centerGlow |->
                       [intensity |-> RMin(RMul(avgAmplitude, RInt(2)), One),
                        color |-> CalculateCenterGlowColor(avgAmplitude)]]
          /\ UNCHANGED <<config, peakValues, peakHoldFrames>>

\* { ...this.config, ...newConfig }
MergeConfig(cfg, newConfig) ==
  [f \in DOMAIN cfg |-> IF f \in DOMAIN newConfig THEN newConfig[f] ELSE cfg[f]]

\* newConfig.barCount && newConfig.barCount !== this.peakValues.length
BarCountChanged(newConfig) ==
  /\ "barCount" \in DOMAIN newConfig
  /\ newConfig.barCount # 0
  /\ newConfig.barCount # Len(peakValues)

\* updateConfig(newConfig)
UpdateConfig(newConfig) ==
  LET merged == MergeConfig(config, newConfig)
      arrays == InitializeArrays(merged)
  IN /\ config' = merged
     /\ IF BarCountChanged(newConfig)
        THEN /\ peakValues' = arrays.peakValues
             /\ peakHoldFrames' = arrays.peakHoldFrames
             /\ smoothedValues' = arrays.smoothedValues
        ELSE UNCHANGED <<peakValues, peakHoldFrames, smoothedValues>>
     /\ UNCHANGED rotation
     /\ out' = [kind |-> "none"]

\* reset()
Reset ==
  /\ peakValues' = Zeros(Len(peakValues))
  /\ peakHoldFrames' = [i \in 1..Len(peakHoldFrames) |-> 0]
  /\ smoothedValues' = Zeros(Len(smoothedValues))
  /\ rotation' = Zero
  /\ UNCHANGED config
  /\ out' = [kind |-> "none"]

\* new WMPVisualizationManager(cfg)
Constructed(cfg) ==
  /\ config = cfg
  /\ peakValues = InitializeArrays(cfg).peakValues
  /\ peakHoldFrames = InitializeArrays(cfg).peakHoldFrames
  /\ smoothedValues = InitializeArrays(cfg).smoothedValues
  /\ rotation = Zero
  /\ out = [kind |-> "none"]

(***************************************************************************)
(* Spec: a manager under every short sequence of its public operations.    *)
(***************************************************************************)
Smoothings == {One, R(1, 2)}
Amplifications == {One, RInt(2)}
BarCounts == {0, 1, 2}

InitConfigs ==
  [barCount : BarCounts, colorScheme : {"wmp"}, peakHold : {TRUE},
   peakDecay : {R(19, 20)}, smoothing : Smoothings,
   amplification : Amplifications]

\* the partial configs handed to updateConfig
Partials ==
  {<<>>}
  \cup {[barCount |-> n] : n \in BarCounts}
  \cup {[amplification |-> a] : a \in Amplifications}
  \cup {[smoothing |-> f] : f \in Smoothings}
  \cup {[peakHold |-> FALSE], [colorScheme |-> "modern"],
        [amplification |-> RInt(2), smoothing |-> R(1, 2)]}

\* band values handed to generateBarsVisualization (FrequencyData.logarithmic):
\* fewer, as many and more values than bars
BandData ==
  {<<>>, <<Zero>>, <<One>>, <<One, Zero>>, <<Zero, One>>, <<One, One>>,
   <<One, Zero, One>>}

(***************************************************************************)
(* WMPAudioEngine: playback state, volume and reported AudioState.         *)
(***************************************************************************)
PEAK_DECAY_RATE == R(19, 20)

\* initializePeaks
InitializePeaks == [i \in 1..FREQUENCY_BANDS |-> Zero]

\* isPlaying(): not paused and currentTime > 0
IsPlaying(el) == IF el = Null THEN FALSE ELSE ~el.paused /\ el.currentTime > 0

IsPaused(el) == IF el = Null THEN FALSE ELSE el.paused /\ el.currentTime > 0

GetCurrentTime(el) == IF el = Null THEN 0 ELSE el.currentTime

\* getVolume(): the gain when there is a gain node, else the element's
\* volume, else 0
GetVolume(el, gain) ==
  IF gain # Null THEN gain.gain ELSE IF el # Null THEN el.volume ELSE Zero

\* getState() (duration, isLoading and fileName carry no state of the model)
GetState(el, gain) ==
  [isPlaying |-> IsPlaying(el), isPaused |-> IsPaused(el),
   currentTime |-> GetCurrentTime(el), volume |-> GetVolume(el, gain)]

\* the functions that are added to and removed from the state listeners
Listeners == {"handleStateChange", "listener"}

\* an operation that invokes no listener
Unheard == heard' = [l \in Listeners |-> [heard[l] EXCEPT !.calls = 0]]

\* a variant that invokes a listener once for every time it was added
NotifyStateChange_PerAdd ==
  LET state == GetState(audioElement', gainNode')
  IN /\ reported' = state
     /\ heard' = [l \in Listeners |->
                   IF l \in stateListeners
                     THEN [heard[l] EXCEPT !.calls = heard[l].added,
                                           !.state = state]
                     ELSE [heard[l] EXCEPT !.calls = 0]]

\* notifyStateChange(): each listener of the set is invoked with getState()
\* of the new state
NotifyStateChange ==
  LET state == GetState(audioElement', gainNode')
  IN /\ reported' = state
     /\ heard' = [l \in Listeners |->
                   IF l \in stateListeners
                     THEN [heard[l] EXCEPT !.calls = 1, !.state = state]
                     ELSE [heard[l] EXCEPT !.calls = 0]]

\* updatePeaks(logarithmic)
UpdatePeaks(pk, values) ==
  [i \in 1..Len(pk) |->
     IF i <= Len(values)
       THEN RMax(values[i], RMul(pk[i], PEAK_DECAY_RATE))
       ELSE pk[i]]

\* the engine after construction: no element, no graph, 64 zero peaks
EngineIdle ==
  /\ audioElement = Null
  /\ gainNode = Null
  /\ enginePeaks = InitializePeaks
  /\ playPromise = "none"
  /\ reported = Null
  /\ stateListeners = {}
  /\ heard = [l \in Listeners |-> [calls |-> 0, state |-> Null, added |-> 0]]

(***************************************************************************)
(* The page: Home, WMPVisualizer and PlayerControls.                       *)
(***************************************************************************)
\* Math.round(volume * 100), the percentage the components show
Percent(volume) == RFloor(RAdd(RMul(volume, RInt(100)), R(1, 2)))

\* the useState initial values of WMPVisualizer
InitialVizState ==
  [isPlaying |-> FALSE, currentTime |-> 0, duration |-> 0, volume |-> One,
   hasAudio |-> FALSE]

\* the useState initial values of PlayerControls
InitialControls ==
  [isPlaying |-> FALSE, currentTime |-> 0, duration |-> 0, volume |-> Zero]

\* the page before WMPVisualizer has mounted
PageIdle ==
  /\ visualizerType = "bars"
  /\ canvas = Null
  /\ vizState = InitialVizState
  /\ wmpVisualizer = Null
  /\ controls = InitialControls
  /\ audioElementRef = Null
  /\ analyserRef = FALSE
  /\ animationFrameRef = Null
  /\ rafQueue = {}
  /\ console = {}
  /\ effects = {}
  /\ slider = Null

\* the useState initial values and the ref of AudioProvider, its effects run
\* once
ProviderIdle ==
  [isVisualizationActive |-> FALSE, frequencyData |-> Null,
   waveformData |-> Null, animationFrame |-> Null, deps |-> <<FALSE, FALSE>>]

AppIdle == EngineIdle /\ PageIdle /\ provider = ProviderIdle

\* byte waveforms (WaveformData.raw); 128 is silence
Waveforms == {<<>>, <<0, 128>>}

Init ==
  /\ \E cfg \in InitConfigs : Constructed(cfg)
  /\ frequencyData = <<>>
  /\ logarithmic = <<>>
  /\ binIndex = <<>>
  /\ hist = <<>>
  /\ steps = 0
  /\ lastData = <<>>
  /\ stepInput = <<>>
  /\ twin = <<>>
  /\ AppIdle

Step == steps < MaxSteps /\ steps' = steps + 1

BarsFrame ==
  \E data \in BandData :
    /\ Step
    /\ GenerateBarsVisualization([logarithmic |-> data])
    /\ lastData' = data
    /\ UNCHANGED <<engineVars, hist, stepInput, twin, appVars>>

SilentBarsFrame ==
  /\ Step
  /\ GenerateBarsVisualization(Null)
  /\ lastData' = <<>>
  /\ UNCHANGED <<engineVars, hist, stepInput, twin, appVars>>

\* Exact arithmetic: 256 smoothing steps with a factor below 1 leave values
\* whose denominators exceed the integer range, so analysed circular frames
\* are taken with smoothing 1 only.
CircularFrame ==
  \E wave \in Waveforms :
    /\ Step
    /\ config.smoothing = One
    /\ GenerateCircularVisualization([normalized |-> Normalize(wave)], 800, 600)
    /\ lastData' = <<>>
    /\ UNCHANGED <<engineVars, hist, stepInput, twin, appVars>>

SilentCircularFrame ==
  /\ Step
  /\ GenerateCircularVisualization(Null, 800, 600)
  /\ lastData' = <<>>
  /\ UNCHANGED <<engineVars, hist, stepInput, twin, appVars>>

ConfigUpdate ==
  \E newConfig \in Partials :
    /\ Step
    /\ UpdateConfig(newConfig)
    /\ lastData' = <<>>
    /\ UNCHANGED <<engineVars, hist, stepInput, twin, appVars>>

ResetCall ==
  /\ Step
  /\ Reset
  /\ lastData' = <<>>
  /\ UNCHANGED <<engineVars, hist, stepInput, twin, appVars>>

Next ==
  \/ BarsFrame
  \/ SilentBarsFrame
  \/ CircularFrame
  \/ SilentCircularFrame
  \/ ConfigUpdate
  \/ ResetCall

Spec == Init /\ [][Next]_vars

(***************************************************************************)
(* SpecPeak: the peak tracker over a run long enough for the hold to run   *)
(* out: analysed bars frames only, smoothing 1 and amplification 1, so     *)
(* that each height is the band value supplied.                            *)
(***************************************************************************)
PeakConfigs ==
  [barCount : {2}, colorScheme : {"wmp"}, peakHold : {TRUE},
   peakDecay : {R(19, 20), R(1, 2)}, smoothing : {One},
   amplification : {One}]

\* frame number n (0-based): band 0 gets any of three values, band 1 the step
PeakData(n) == {<<v, IF n = 0 THEN One ELSE Zero>> : v \in {Zero, R(1, 2), One}}

InitPeak ==
  /\ \E cfg \in PeakConfigs : Constructed(cfg)
  /\ frequencyData = <<>>
  /\ logarithmic = <<>>
  /\ binIndex = <<>>
  /\ hist = <<>>
  /\ steps = 0
  /\ lastData = <<>>
  /\ stepInput = <<TRUE, TRUE>>
  /\ twin = <<>>
  /\ AppIdle

\* frame number steps (0-based): frames 0 .. PEAK_HOLD_FRAMES + MaxDecayFrames
PeakFrame ==
  \E data \in PeakData(steps) :
    /\ steps < PEAK_HOLD_FRAMES + 1 + MaxDecayFrames
    /\ steps' = steps + 1
    /\ GenerateBarsVisualization([logarithmic |-> data])
    /\ stepInput' = [i \in 1..2 |->
                       stepInput[i] /\ out'.heights[i] = (IF steps = 0 THEN One ELSE Zero)]
    /\ lastData' = data
    /\ UNCHANGED <<engineVars, hist, twin, appVars>>

NextPeak == PeakFrame

SpecPeak == InitPeak /\ [][NextPeak]_vars

(***************************************************************************)
(* SpecSmooth: analysed bars frames and updateConfig calls that change     *)
(* amplification or smoothing, with the frames recorded in hist.           *)
(***************************************************************************)
SmoothConfigs ==
  [barCount : {2}, colorScheme : {"wmp"}, peakHold : {TRUE},
   peakDecay : {R(19, 20)}, smoothing : Smoothings,
   amplification : Amplifications]

SmoothData == {<<Zero, One>>, <<One, Zero>>, <<One>>, <<R(1, 2), One, One>>}

SmoothPartials ==
  {[amplification |-> a] : a \in Amplifications}
  \cup {[smoothing |-> f] : f \in Smoothings}
  \cup {[amplification |-> RInt(2), smoothing |-> R(1, 2)]}

InitSmooth ==
  /\ \E cfg \in SmoothConfigs : Constructed(cfg)
  /\ frequencyData = <<>>
  /\ logarithmic = <<>>
  /\ binIndex = <<>>
  /\ hist = <<>>
  /\ steps = 0
  /\ lastData = <<>>
  /\ stepInput = <<>>
  /\ twin = <<>>
  /\ AppIdle

SmoothStep == steps < MaxSmoothSteps /\ steps' = steps + 1

SmoothFrame ==
  \E data \in SmoothData :
    /\ SmoothStep
    /\ GenerateBarsVisualization([logarithmic |-> data])
    /\ hist' = Append(hist, [data |-> data,
                             amplification |-> config.amplification,
                             smoothing |-> config.smoothing])
    /\ lastData' = data
    /\ UNCHANGED <<engineVars, stepInput, twin, appVars>>

SmoothUpdate ==
  \E newConfig \in SmoothPartials :
    /\ SmoothStep
    /\ UpdateConfig(newConfig)
    /\ lastData' = <<>>
    /\ UNCHANGED <<engineVars, hist, stepInput, twin, appVars>>

NextSmooth == SmoothFrame \/ SmoothUpdate

SpecSmooth == InitSmooth /\ [][NextSmooth]_vars

(***************************************************************************)
(* SpecMap: the band mapper on a magnitude snapshot, followed by one       *)
(* analysed bars frame of a 64-band manager with smoothing 1.              *)
(***************************************************************************)
\* a snapshot of n bins, all 0 except bin hot = 255
OneHot(n, hot) == [k \in 1..n |-> IF k = hot + 1 THEN 255 ELSE 0]

RECURSIVE ByteSeqs(_)
ByteSeqs(n) ==
  IF n = 0 THEN {<<>>}
  ELSE {Append(q, x) : q \in ByteSeqs(n - 1), x \in {0, 128, 255}}

\* a snapshot of n bins with mixed magnitudes
Ramp(n) == [k \in 1..n |-> (k * 37) % 256]

Snapshots ==
  UNION {ByteSeqs(n) : n \in 0..MaxBins}
  \cup {Ramp(16), Ramp(100), OneHot(1024, 512)}

MapConfig ==
  [barCount |-> FREQUENCY_BANDS, colorScheme |-> "wmp", peakHold |-> TRUE,
   peakDecay |-> R(19, 20), smoothing |-> One, amplification |-> One]

InitMap ==
  /\ Constructed(MapConfig)
  /\ frequencyData \in Snapshots
  /\ logarithmic = <<>>
  /\ binIndex = <<>>
  /\ hist = <<>>
  /\ steps = 0
  /\ lastData = <<>>
  /\ stepInput = <<>>
  /\ twin = <<>>
  /\ AppIdle

\* convertToLogarithmic on the snapshot
MapConvert ==
  /\ logarithmic = <<>>
  /\ LET c == ConvertToLogarithmic(frequencyData)
     IN /\ logarithmic' = c.values
        /\ binIndex' = c.indices
  /\ lastData' = <<>>
  /\ UNCHANGED <<mgrVars, out, frequencyData, hist, steps, stepInput, twin,
                 appVars>>

\* the amplification is set before the frame
MapAmplify ==
  /\ logarithmic # <<>>
  /\ steps = 0
  /\ lastData = <<>>
  /\ \E a \in {R(1, 2), RInt(2)} : UpdateConfig([amplification |-> a])
  /\ steps' = 1
  /\ lastData' = <<>>
  /\ UNCHANGED <<engineVars, hist, stepInput, twin, appVars>>

\* generateBarsVisualization on the band values
MapBarsFrame ==
  /\ logarithmic # <<>>
  /\ steps < 2
  /\ GenerateBarsVisualization([logarithmic |-> logarithmic])
  /\ steps' = 2
  /\ lastData' = logarithmic
  /\ UNCHANGED <<engineVars, hist, stepInput, twin, appVars>>

NextMap == MapConvert \/ MapAmplify \/ MapBarsFrame

SpecMap == InitMap /\ [][NextMap]_vars

(***************************************************************************)
(* Properties of the peak tracker (SpecPeak).                              *)
(***************************************************************************)
RECURSIVE RPow(_, _)
RPow(a, k) == IF k = 0 THEN One ELSE RMul(a, RPow(a, k - 1))

\* the number of the frame that out reports, counted from 0
FrameNumber == steps - 1

\* C1: with peakHold on and peakDecay 0.95, a band of a fresh manager whose
\* height is 1 at frame 0 and 0 at every later frame reports the peak 1 at
\* the frames 0 .. 29 and the peak 0.95^k at frame 30 + k, for every k >= 0.
C1_StepResponse ==
  \A i \in 1..2 :
    (out.kind = "bars" /\ stepInput[i] /\ config.peakHold
       /\ config.peakDecay = R(19, 20))
    => out.peaks[i] = IF FrameNumber < 30 THEN One
                      ELSE RPow(R(19, 20), FrameNumber - 30)

\* the step in the first band, two decay frames after the hold: 0.95^2
C1_Witness ==
  /\ out.kind = "bars"
  /\ stepInput[1]
  /\ config.peakDecay = R(19, 20)
  /\ FrameNumber = 32
  /\ out.peaks[1] = R(361, 400)

\* C2: an analysed bars frame updates each band's peak state once, by the
\* first of three transitions that applies: a height strictly above the
\* stored value becomes the value and the hold counter becomes 30; otherwise
\* a hold counter above 0 is decremented and the value stays; otherwise the
\* value is multiplied by config.peakDecay and the counter stays 0.
C2_PeakTransition ==
  [][out'.kind = "bars" =>
       \A i \in 1..Len(out'.heights) :
         IF RGt(out'.heights[i], peakValues[i])
         THEN peakValues'[i] = out'.heights[i] /\ peakHoldFrames'[i] = 30
         ELSE IF peakHoldFrames[i] > 0
         THEN /\ peakValues'[i] = peakValues[i]
              /\ peakHoldFrames'[i] = peakHoldFrames[i] - 1
         ELSE /\ peakValues'[i] = RMul(peakValues[i], config.peakDecay)
              /\ peakHoldFrames'[i] = 0]_vars

\* a peak that was held for 30 frames and has decayed since, next to a band
\* that is still holding a later peak
C2_Witness ==
  /\ out.kind = "bars"
  /\ peakHoldFrames[2] = 0
  /\ RLt(Zero, peakValues[2])
  /\ RLt(peakValues[2], One)
  /\ peakHoldFrames[1] > 0
  /\ peakHoldFrames[1] < 30

(***************************************************************************)
(* Properties of the band mapper (SpecMap).                                *)
(***************************************************************************)
Converted == logarithmic # <<>>

BinCount == Len(frequencyData)

\* the bin whose magnitude band b (from 1) takes
BinRead(b) == Min(binIndex[b], BinCount - 1)

SpikeAt512 == frequencyData = OneHot(1024, 512)

\* the bands of the frame in out whose height is above 0
LitBands == {b \in 1..Len(out.heights) : RGt(out.heights[b], Zero)}

\* C3 as stated: for the 1024-bin snapshot that is 255 in bin 512 and 0
\* elsewhere, one analysed frame of a fresh 64-band manager with smoothing 1
\* and amplification above 0 has exactly one band with height above 0.
C3_ExactlyOneBand ==
  (SpikeAt512 /\ out.kind = "bars") => Cardinality(LitBands) = 1

\* C3: for that snapshot every band of the analysed frame has height 0: no
\* band takes bin 512, the bands 57 and 58 take the bins 479 and 534.
C3_NoBandReadsSpike ==
  (SpikeAt512 /\ out.kind = "bars")
  => /\ LitBands = {}
     /\ Len(out.heights) = 64
     /\ BinRead(58) = 479
     /\ BinRead(59) = 534

C3_Witness ==
  /\ SpikeAt512
  /\ out.kind = "bars"
  /\ config.amplification = RInt(2)
  /\ config.smoothing = One

\* C4 as stated: with 1024 bins, band 0 takes bin 0 and band 63 bin 1023.
C4_LastBandLastBin ==
  (Converted /\ BinCount = 1024) => (BinRead(1) = 0 /\ BinRead(64) = 1023)

\* C4: with 1024 bins, band 0 takes bin 0 and band 63 takes bin 918.
C4_EndBands ==
  (Converted /\ BinCount = 1024) => (BinRead(1) = 0 /\ BinRead(64) = 918)

C4_Witness == Converted /\ BinCount = 1024 /\ Len(binIndex) = 64

\* C5: for a snapshot of two bins or more, a lower band never takes a
\* higher bin than a higher band.
C5_Monotone ==
  (Converted /\ BinCount >= 2)
  => \A i, j \in 1..Len(binIndex) : i < j => BinRead(i) <= BinRead(j)

\* a snapshot of 100 bins whose bands spread over several bins
C5_Witness ==
  /\ Converted
  /\ BinCount = 100
  /\ BinRead(1) < BinRead(32)
  /\ BinRead(32) < BinRead(64)

\* C6: for a snapshot of two bins or more the band mapper returns 64 values,
\* each within [0, 1], and every index it computes lies within [0, N - 1].
C6_MapperRange ==
  (Converted /\ BinCount >= 2)
  => /\ Len(logarithmic) = 64
     /\ \A b \in 1..Len(logarithmic) :
          /\ InUnit(logarithmic[b])
          /\ binIndex[b] \in 0..(BinCount - 1)

\* a band at the full magnitude and a band at an intermediate one
C6_Witness ==
  /\ Converted
  /\ BinCount >= 2
  /\ \E b \in 1..64 : logarithmic[b] = One
  /\ \E b \in 1..64 : logarithmic[b] = R(128, 255)

(***************************************************************************)
(* Properties of the frames (Spec).                                        *)
(***************************************************************************)
DarkGray == <<R(1, 5), R(1, 5), R(1, 5)>>

RingGray == <<R(3, 10), R(3, 10), R(3, 10)>>

\* C7: generateBarsVisualization(null) returns config.barCount entries, each
\* of height 0, peak 0 and color (0.2, 0.2, 0.2), whatever the stored
\* smoother and peak state.
C7_SilentBars ==
  out.kind = "silentBars"
  => /\ Len(out.heights) = config.barCount
     /\ Len(out.peaks) = config.barCount
     /\ Len(out.colors) = config.barCount
     /\ \A i \in 1..config.barCount :
          out.heights[i] = Zero /\ out.peaks[i] = Zero /\ out.colors[i] = DarkGray

\* a silence frame of a manager that holds a peak and a smoothed value
C7_Witness ==
  /\ out.kind = "silentBars"
  /\ config.barCount > 0
  /\ \E i \in 1..Len(peakValues) :
       RGt(peakValues[i], Zero) /\ RGt(smoothedValues[i], Zero)

\* C8: generateCircularVisualization(null, w, h) returns 256 points of
\* amplitude 0 and color (0.3, 0.3, 0.3), rotation 0 and a center glow of
\* intensity 0, also after analysed circular frames advanced the rotation.
C8_SilentCircular ==
  out.kind = "silentCircular"
  => /\ Len(out.points) = 256
     /\ \A i \in 1..Len(out.points) :
          out.points[i].amplitude = Zero /\ out.points[i].color = RingGray
     /\ out.rotation = Zero
     /\ out.centerGlow.intensity = Zero

\* a silence frame of a manager whose rotation has advanced
C8_Witness == out.kind = "silentCircular" /\ RGt(rotation, Zero)

\* the color calculateBarColors gives a bar
BarColor(height, peak) ==
  IF config.colorScheme = "wmp"
  THEN CalculateWMPColor(RMax(height, peak))
  ELSE CalculateModernColor(RMax(height, peak))

\* C9: the heights, peaks and colors of a bars frame have config.barCount
\* entries each, whatever the number of band values supplied, and entry i is
\* band i's: its height is the clamped smoother state of band i, its peak
\* the stored peak of band i (0 with peakHold off), its color that of both.
C9_BarCountEntries ==
  /\ out.kind \in {"bars", "silentBars"}
     => /\ Len(out.heights) = config.barCount
        /\ Len(out.peaks) = config.barCount
        /\ Len(out.colors) = config.barCount
  /\ out.kind = "bars"
     => \A i \in 1..Len(out.heights) :
          /\ out.heights[i] = Clamp01(smoothedValues[i])
          /\ out.peaks[i] = IF config.peakHold THEN peakValues[i] ELSE Zero
          /\ out.colors[i] = BarColor(out.heights[i], out.peaks[i])

\* an analysed frame of two bars from one band value
C9_Witness ==
  /\ out.kind = "bars"
  /\ config.barCount = 2
  /\ lastData = <<One>>
  /\ RGt(out.heights[1], Zero)
  /\ out.heights[2] = Zero

(***************************************************************************)
(* Properties of the smoothing (SpecSmooth).                               *)
(***************************************************************************)
\* the exponential smoothing of band i's raw values over the first n frames
RECURSIVE RawSmoothing(_, _)
RawSmoothing(i, n) ==
  IF n = 0 THEN Zero
  ELSE LET previous == RawSmoothing(i, n - 1)
           raw == ValueOrZero(hist[n].data, i - 1)
       IN RAdd(previous, RMul(RSub(raw, previous), hist[n].smoothing))

\* the same of the raw values multiplied by the amplification of their frame
RECURSIVE AmplifiedSmoothing(_, _)
AmplifiedSmoothing(i, n) ==
  IF n = 0 THEN Zero
  ELSE LET previous == AmplifiedSmoothing(i, n - 1)
           raw == RMul(ValueOrZero(hist[n].data, i - 1), hist[n].amplification)
       IN RAdd(previous, RMul(RSub(raw, previous), hist[n].smoothing))

C11_SeparateSmoothing ==
  [][out'.kind = "circular" => smoothedValues' = smoothedValues]_vars

(***************************************************************************)
(* SpecHold: the peak tracker of one band while updateConfig switches      *)
(* peakHold, next to a manager that has peakHold on from the start and is  *)
(* given the same frames (twin).                                           *)
(***************************************************************************)
HoldConfigs ==
  [barCount : {1}, colorScheme : {"wmp"}, peakHold : {FALSE},
   peakDecay : {R(1, 2)}, smoothing : {One}, amplification : {One}]

HoldData == {<<Zero>>, <<R(1, 2)>>, <<One>>}

InitHold ==
  /\ \E cfg \in HoldConfigs : Constructed(cfg)
  /\ frequencyData = <<>>
  /\ logarithmic = <<>>
  /\ binIndex = <<>>
  /\ hist = <<>>
  /\ steps = 0
  /\ lastData = <<>>
  /\ stepInput = <<>>
  /\ twin = [peakValues |-> peakValues, peakHoldFrames |-> peakHoldFrames,
             peaks |-> <<>>, hidden |-> FALSE]
  /\ AppIdle

\* an analysed frame of the manager and of its twin; hidden: some frame so
\* far was analysed with peakHold off
HoldFrame ==
  \E data \in HoldData :
    /\ steps < PEAK_HOLD_FRAMES + 1 + MaxDecayFrames
    /\ steps' = steps + 1
    /\ GenerateBarsVisualization([logarithmic |-> data])
    /\ lastData' = data
    /\ LET t == CalculatePeaks([config EXCEPT !.peakHold = TRUE],
                               twin.peakValues, twin.peakHoldFrames,
                               out'.heights)
       IN twin' = [peakValues |-> t.peakValues,
                   peakHoldFrames |-> t.peakHoldFrames,
                   peaks |-> t.peaks,
                   hidden |-> (twin.hidden \/ ~config.peakHold)]
    /\ UNCHANGED <<engineVars, hist, stepInput, appVars>>

\* updateConfig({peakHold: b})
HoldUpdate ==
  \E b \in BOOLEAN :
    /\ b # config.peakHold
    /\ UpdateConfig([peakHold |-> b])
    /\ lastData' = <<>>
    /\ UNCHANGED <<engineVars, hist, steps, stepInput, twin, appVars>>

NextHold == HoldFrame \/ HoldUpdate

SpecHold == InitHold /\ [][NextHold]_vars

\* C12: with peakHold off every reported peak is 0, while the stored peak
\* value and hold counter of each band evolve as with peakHold on: once
\* peakHold is on, the reported peaks are those of a manager that had
\* peakHold on from the start and was given the same frames.
C12_PeakHoldOff ==
  /\ (out.kind = "bars" /\ ~config.peakHold)
     => \A i \in 1..Len(out.peaks) : out.peaks[i] = Zero
  /\ peakValues = twin.peakValues
  /\ peakHoldFrames = twin.peakHoldFrames
  /\ (out.kind = "bars" /\ config.peakHold) => out.peaks = twin.peaks

\* peakHold is on after frames analysed with peakHold off, and the peak
\* reported has been held and has decayed
C12_Witness ==
  /\ out.kind = "bars"
  /\ config.peakHold
  /\ twin.hidden
  /\ peakHoldFrames[1] = 0
  /\ RLt(Zero, out.peaks[1])
  /\ RLt(out.peaks[1], R(1, 2))

(***************************************************************************)
(* Properties of the rotation (Spec).                                      *)
(***************************************************************************)
\* C13: an analysed circular frame increases the stored rotation by an
\* amount between 0.01 and 0.06 and reports the new rotation; no other call
\* but reset() changes the rotation.
C13_RotationMonotone ==
  [][/\ out'.kind = "circular"
        => /\ RLe(R(1, 100), RSub(rotation', rotation))
           /\ RLe(RSub(rotation', rotation), R(6, 100))
           /\ out'.rotation = rotation'
     /\ (out'.kind # "circular" /\ ~ResetCall) => rotation' = rotation]_vars

(***************************************************************************)
(* SpecGlow: one analysed circular frame of a fresh manager, for quiet and *)
(* loud byte waveforms.                                                    *)
(***************************************************************************)
GlowConfigs ==
  [barCount : {1}, colorScheme : {"wmp", "modern"}, peakHold : {TRUE},
   peakDecay : {R(19, 20)}, smoothing : {One}, amplification : {One}]

GlowBytes == {0, 32, 64, 96, 128, 192, 255}

\* byte waveforms of one and two samples (WaveformData.raw)
GlowWaveforms ==
  {<<a>> : a \in GlowBytes} \cup {<<a, b>> : a \in GlowBytes, b \in GlowBytes}

InitGlow ==
  /\ \E cfg \in GlowConfigs : Constructed(cfg)
  /\ frequencyData = <<>>
  /\ logarithmic = <<>>
  /\ binIndex = <<>>
  /\ hist = <<>>
  /\ steps = 0
  /\ lastData = <<>>
  /\ stepInput = <<>>
  /\ twin = <<>>
  /\ AppIdle

GlowFrame ==
  \E wave \in GlowWaveforms :
    /\ steps < 1
    /\ steps' = steps + 1
    /\ GenerateCircularVisualization([normalized |-> Normalize(wave)], 800, 600)
    /\ lastData' = Normalize(wave)
    /\ UNCHANGED <<engineVars, hist, stepInput, twin, appVars>>

NextGlow == GlowFrame

SpecGlow == InitGlow /\ [][NextGlow]_vars

\* C14: for a non-empty byte waveform the center glow of the analysed
\* circular frame has the intensity min(2 * avgAmplitude, 1), within [0, 1],
\* and a color whose three channels lie within [0, 1].
C14_GlowInRange ==
  (out.kind = "circular" /\ Len(lastData) > 0)
  => /\ out.centerGlow.intensity =
          RMin(RMul(CalculateAverageAmplitude(lastData), RInt(2)), One)
     /\ InUnit(out.centerGlow.intensity)
     /\ \A ch \in 1..3 : InUnit(out.centerGlow.color[ch])

(***************************************************************************)
(* SpecColor: the color mapper under analysed bars frames of one band with *)
(* smoothing 1 and amplification 1, so that the height is the band value   *)
(* and the color that of the larger of height and peak.                    *)
(***************************************************************************)
ColorConfigs ==
  [barCount : {1}, colorScheme : {"wmp", "modern"}, peakHold : {TRUE},
   peakDecay : {R(19, 20)}, smoothing : {One}, amplification : {One}]

Intensities == {R(k, ColorSteps) : k \in 0..ColorSteps}

InitColor ==
  /\ \E cfg \in ColorConfigs : Constructed(cfg)
  /\ frequencyData = <<>>
  /\ logarithmic = <<>>
  /\ binIndex = <<>>
  /\ hist = <<>>
  /\ steps = 0
  /\ lastData = <<>>
  /\ stepInput = <<>>
  /\ twin = <<>>
  /\ AppIdle

ColorFrame ==
  \E v \in Intensities :
    /\ steps < MaxColorFrames
    /\ steps' = steps + 1
    /\ GenerateBarsVisualization([logarithmic |-> <<v>>])
    /\ lastData' = <<v>>
    /\ UNCHANGED <<engineVars, hist, stepInput, twin, appVars>>

NextColor == ColorFrame

SpecColor == InitColor /\ [][NextColor]_vars

\* the intensity the color of bar i of the frame in out is computed from
ColorIntensity(i) == RMax(out.heights[i], out.peaks[i])

\* C15: for every intensity in [0, 1] and both schemes the color of a bar
\* of an analysed frame, computed from the larger of height and peak, has
\* its three channels within [0, 1].
C15_ColorInRange ==
  out.kind = "bars"
  => \A i \in 1..Len(out.colors) :
       /\ InUnit(ColorIntensity(i))
       /\ \A ch \in 1..3 : InUnit(out.colors[i][ch])

\* a bar colored by its held peak, in the upper half of the range, in the
\* modern scheme
C15_Witness ==
  /\ out.kind = "bars"
  /\ config.colorScheme = "modern"
  /\ RLt(out.heights[1], out.peaks[1])
  /\ RLt(R(1, 2), out.peaks[1])
  /\ RLt(out.peaks[1], One)
  /\ out.colors[1] = <<RSub(RMul(out.peaks[1], RInt(2)), One), One, One>>

\* C16: the WMP scheme maps the intensity 0 to (0, 0.3, 0) and the
\* intensity 1 to (1, 0, 0).
C16_WMPFixedPoints ==
  (out.kind = "bars" /\ config.colorScheme = "wmp")
  => \A i \in 1..Len(out.colors) :
       /\ ColorIntensity(i) = Zero => out.colors[i] = <<Zero, R(3, 10), Zero>>
       /\ ColorIntensity(i) = One => out.colors[i] = <<One, Zero, Zero>>

\* a second frame, of intensity 1
C16_Witness ==
  /\ out.kind = "bars"
  /\ config.colorScheme = "wmp"
  /\ steps = 2
  /\ ColorIntensity(1) = One
  /\ out.colors[1] = <<One, Zero, Zero>>

(***************************************************************************)
(* Properties of the smoother at a constant input (SpecSmooth).            *)
(***************************************************************************)
\* the value smoothValue was given for band i in frame n
Supplied(i, n) == RMul(ValueOrZero(hist[n].data, i - 1), hist[n].amplification)

\* band i was given the same value, under the same factor, in every frame
ConstantInput(i) ==
  \A n \in 1..Len(hist) :
    Supplied(i, n) = Supplied(i, 1) /\ hist[n].smoothing = hist[1].smoothing

\* C17: while a slot is given the same value v under a fixed factor in
\* (0, 1], its distance to v shrinks by the factor 1 - factor in every
\* frame, without overshooting: after n frames it is v * (1 - factor)^n;
\* once the slot equals v it stays at v.
C17_SteadyState ==
  \A i \in 1..Len(smoothedValues) :
    (Len(hist) >= 1 /\ ConstantInput(i))
    => RSub(Supplied(i, 1), smoothedValues[i])
         = RMul(Supplied(i, 1),
                RPow(RSub(One, hist[1].smoothing), Len(hist)))

\* four frames of the value 1 under the factor 1/2
C17_Witness ==
  /\ Len(hist) = 4
  /\ ConstantInput(1)
  /\ hist[1].smoothing = R(1, 2)
  /\ Supplied(1, 1) = One
  /\ smoothedValues[1] = R(15, 16)

(***************************************************************************)
(* Properties of updateConfig and reset (Spec).                            *)
(***************************************************************************)
\* the step is the call updateConfig(newConfig)
IsUpdate(newConfig) == Step /\ UpdateConfig(newConfig)

\* C18: updateConfig(partial) replaces the supplied fields and keeps the
\* others; without a barCount, or with the current one, it leaves the peak
\* values, hold counters, smoother values and rotation as they are; with
\* another barCount, 0 included, the three arrays become arrays of zeros of
\* the new length.
C18_UpdateConfig ==
  [][\A newConfig \in Partials :
       IsUpdate(newConfig)
       => /\ \A f \in DOMAIN config :
               config'[f] = IF f \in DOMAIN newConfig THEN newConfig[f]
                            ELSE config[f]
          /\ IF "barCount" \in DOMAIN newConfig
                /\ newConfig.barCount # config.barCount
             THEN /\ peakValues' = Zeros(newConfig.barCount)
                  /\ peakHoldFrames' = [i \in 1..newConfig.barCount |-> 0]
                  /\ smoothedValues' = Zeros(newConfig.barCount)
             ELSE UNCHANGED <<peakValues, peakHoldFrames, smoothedValues,
                              rotation>>]_vars

\* the first two points of an analysed circular frame of a manager with the
\* config cfg and the smoother state sv
FirstPoints(cfg, sv, wave) ==
  CircularPointsUpTo(cfg, [points |-> <<>>, state |-> sv], Normalize(wave), 2).points

\* C19: reset() leaves every peak value, hold counter and smoother value 0
\* and the rotation 0, and the frames generated next are those of a manager
\* freshly constructed with the current config.
C19_ColdStart ==
  [][ResetCall
     => /\ \A i \in 1..Len(peakValues') :
             peakValues'[i] = Zero /\ peakHoldFrames'[i] = 0
        /\ \A i \in 1..Len(smoothedValues') : smoothedValues'[i] = Zero
        /\ rotation' = Zero
        /\ \A data \in BandData :
             CalculateBarHeights(config', smoothedValues', data).heights
               = CalculateBarHeights(config', Zeros(config'.barCount), data).heights
        /\ \A wave \in Waveforms :
             FirstPoints(config', smoothedValues', wave)
               = FirstPoints(config', Zeros(config'.barCount), wave)]_vars

(***************************************************************************)
(* Properties of the empty waveform (Spec).                                *)
(***************************************************************************)
\* C20: an analysed circular frame, also one of a zero-length waveform,
\* leaves the rotation a finite number, and every analysed frame reports a
\* finite rotation.
C20_FiniteRotation ==
  /\ ~IsNaN(rotation)
  /\ out.kind = "circular" => ~IsNaN(out.rotation)

(***************************************************************************)
(* SpecDims: one frame of either generator on managers of zero, one and    *)
(* two bars, circular frames on canvases of positive, zero and negative    *)
(* width and height.                                                       *)
(***************************************************************************)
DimsConfigs ==
  [barCount : BarCounts, colorScheme : {"wmp", "modern"}, peakHold : {TRUE},
   peakDecay : {R(19, 20)}, smoothing : {One}, amplification : Amplifications]

\* canvas sizes <<width, height>> handed to generateCircularVisualization
Dims == {<<800, 600>>, <<0, 600>>, <<800, 0>>, <<-800, 600>>, <<800, -600>>}

InitDims ==
  /\ \E cfg \in DimsConfigs : Constructed(cfg)
  /\ frequencyData = <<>>
  /\ logarithmic = <<>>
  /\ binIndex = <<>>
  /\ hist = <<>>
  /\ steps = 0
  /\ lastData = <<>>
  /\ stepInput = <<>>
  /\ twin = <<>>
  /\ AppIdle

DimsBarsFrame ==
  \E data \in BandData :
    /\ steps < 1
    /\ steps' = steps + 1
    /\ GenerateBarsVisualization([logarithmic |-> data])
    /\ lastData' = data
    /\ UNCHANGED <<engineVars, hist, stepInput, twin, appVars>>

DimsSilentBarsFrame ==
  /\ steps < 1
  /\ steps' = steps + 1
  /\ GenerateBarsVisualization(Null)
  /\ lastData' = <<>>
  /\ UNCHANGED <<engineVars, hist, stepInput, twin, appVars>>

DimsCircularFrame ==
  \E d \in Dims :
    /\ steps < 1
    /\ steps' = steps + 1
    /\ GenerateCircularVisualization([normalized |-> Normalize(<<0, 128>>)],
                                     d[1], d[2])
    /\ lastData' = d
    /\ UNCHANGED <<engineVars, hist, stepInput, twin, appVars>>

DimsSilentCircularFrame ==
  \E d \in Dims :
    /\ steps < 1
    /\ steps' = steps + 1
    /\ GenerateCircularVisualization(Null, d[1], d[2])
    /\ lastData' = d
    /\ UNCHANGED <<engineVars, hist, stepInput, twin, appVars>>

NextDims ==
  \/ DimsBarsFrame
  \/ DimsSilentBarsFrame
  \/ DimsCircularFrame
  \/ DimsSilentCircularFrame

SpecDims == InitDims /\ [][NextDims]_vars

\* the kinds of frame a generator returns
FrameKinds == {"bars", "silentBars", "circular", "silentCircular"}

\* the latest call was a circular one on a canvas of non-positive width or
\* height (lastData holds the size handed to it)
NonPositiveCanvas ==
  /\ out.kind \in {"circular", "silentCircular"}
  /\ lastData[1] <= 0 \/ lastData[2] <= 0

\* C21: a generator called with config.barCount <= 0, and a circular
\* generator called with width <= 0 or height <= 0, ends with an
\* InvalidConfiguration error: it returns no frame.
C21_FailFast ==
  (config.barCount <= 0 \/ NonPositiveCanvas) => out.kind \notin FrameKinds

(***************************************************************************)
(* Properties of the band mapper on short snapshots (SpecMap).             *)
(***************************************************************************)
\* C22: the band mapping of a snapshot of fewer than 2 bins fails with
\* InvalidConfiguration: it returns no band values.
C22_ShortSnapshotFails ==
  BinCount < 2 => ~Converted

(***************************************************************************)
(* SpecIndex: smoothValue called at indices inside and outside the         *)
(* smoother's state array.                                                 *)
(***************************************************************************)
MaxIndexCalls == 2

\* 0-based indices; -1 is below every array, 2 is at or above every length
SmoothIndices == -1..2

SmoothInputs == {Zero, R(1, 2), One}

InitIndex ==
  /\ \E cfg \in InitConfigs : Constructed(cfg)
  /\ frequencyData = <<>>
  /\ logarithmic = <<>>
  /\ binIndex = <<>>
  /\ hist = <<>>
  /\ steps = 0
  /\ lastData = <<>>
  /\ stepInput = <<>>
  /\ twin = <<>>
  /\ AppIdle

\* one call smoothValue(newValue, index); out holds what the call returned
SmoothAt ==
  \E newValue \in SmoothInputs, index \in SmoothIndices :
    /\ steps < MaxIndexCalls
    /\ steps' = steps + 1
    /\ LET sm == SmoothValue(config, smoothedValues, newValue, index)
       IN /\ smoothedValues' = sm.state
          /\ out' = [kind |-> "smoothed", index |-> index, value |-> sm.value]
    /\ lastData' = smoothedValues
    /\ UNCHANGED <<config, peakValues, peakHoldFrames, rotation, engineVars,
                   hist, stepInput, twin, appVars>>

NextIndex == SmoothAt

SpecIndex == InitIndex /\ [][NextIndex]_vars

\* C23: smoothing at an index outside the state array (index < 0 or
\* index >= length) fails with IndexOutOfBounds: only a call at an index
\* inside the array returns a value.
C23_OutOfRangeFails ==
  out.kind = "smoothed" => (0 <= out.index /\ out.index < Len(smoothedValues))

(***************************************************************************)
(* SpecEngine: WMPAudioEngine under loadAudio, play, pause, stop,          *)
(* setVolume, seek, getState and getFrequencyData, with the playback       *)
(* position advancing while the element plays.                             *)
(***************************************************************************)
MaxEngineCalls == 4

\* playback positions, in whole ticks; the duration of the file is MaxTime
MaxTime == 2

\* volumes handed to setVolume, one above the range
EngineVolumes == {Zero, R(1, 2), RInt(2)}

\* magnitude snapshots of the analyser
EngineSnapshots == {<<0, 0>>, <<128, 128>>, <<255, 255>>}

\* new Audio(): paused, at position 0, volume 1
NewAudio == [paused |-> TRUE, currentTime |-> 0, volume |-> One]

InitEngine ==
  /\ Constructed(MapConfig)
  /\ frequencyData = <<>>
  /\ logarithmic = <<>>
  /\ binIndex = <<>>
  /\ hist = <<>>
  /\ steps = 0
  /\ lastData = <<>>
  /\ stepInput = <<>>
  /\ twin = <<>>
  /\ AppIdle

\* byte waveforms of the analyser
EngineWaveforms == {<<0, 128>>, <<255, 128>>}

\* convertToLogarithmic of each snapshot
EngineBands == [snapshot \in EngineSnapshots |-> ConvertToLogarithmic(snapshot)]

\* the variables of the manager and of the page
restVars == <<mgrVars, hist, stepInput, twin, uiVars>>

EngineCall == steps < MaxEngineCalls /\ steps' = steps + 1

\* loadAudio(file) up to its wait for loadeddata: cleanup (the element is
\* paused and dropped, the nodes are dropped, initializePeaks), then a new
\* element
LoadAudio ==
  /\ EngineCall
  /\ audioElement' = NewAudio
  /\ gainNode' = Null
  /\ enginePeaks' = InitializePeaks
  /\ playPromise' = "none"
  /\ Unheard
  /\ UNCHANGED <<restVars, out, engineVars, lastData, reported, stateListeners>>

\* the loadeddata listener: setupAudioGraph (the analyser and the gain node,
\* gain 0.0), notifyStateChange
Loadeddata ==
  /\ audioElement # Null
  /\ gainNode = Null
  /\ steps' = steps
  /\ gainNode' = [gain |-> Zero]
  /\ UNCHANGED <<audioElement, enginePeaks, playPromise>>
  /\ NotifyStateChange
  /\ UNCHANGED <<restVars, out, engineVars, lastData, stateListeners>>

\* play() up to its wait for audioElement.play(): the element leaves paused
PlayCall ==
  /\ audioElement # Null
  /\ playPromise # "pending"
  /\ EngineCall
  /\ audioElement' = [audioElement EXCEPT !.paused = FALSE]
  /\ playPromise' = "pending"
  /\ Unheard
  /\ UNCHANGED <<restVars, out, engineVars, lastData, gainNode, enginePeaks,
                 reported, stateListeners>>

\* audioElement.play() resolves once the data is loaded; play() goes on with
\* notifyStateChange
PlayResolved ==
  /\ playPromise = "pending"
  /\ gainNode # Null
  /\ steps' = steps
  /\ playPromise' = "resolved"
  /\ UNCHANGED <<audioElement, gainNode, enginePeaks>>
  /\ NotifyStateChange
  /\ UNCHANGED <<restVars, out, engineVars, lastData, stateListeners>>

\* the playback position advances while the element plays
TimeAdvance ==
  /\ audioElement # Null
  /\ ~audioElement.paused
  /\ gainNode # Null
  /\ audioElement.currentTime < MaxTime
  /\ audioElement' = [audioElement EXCEPT !.currentTime = @ + 1]
  /\ UNCHANGED <<restVars, out, engineVars, steps, lastData, gainNode,
                 enginePeaks, playPromise, reported, stateListeners, heard>>

\* pause(); a play() still waiting is rejected
PauseCall ==
  /\ audioElement # Null
  /\ EngineCall
  /\ audioElement' = [audioElement EXCEPT !.paused = TRUE]
  /\ playPromise' = "none"
  /\ UNCHANGED <<gainNode, enginePeaks>>
  /\ NotifyStateChange
  /\ UNCHANGED <<restVars, out, engineVars, lastData, stateListeners>>

\* stop()
StopCall ==
  /\ audioElement # Null
  /\ EngineCall
  /\ audioElement' = [audioElement EXCEPT !.paused = TRUE, !.currentTime = 0]
  /\ playPromise' = "none"
  /\ UNCHANGED <<gainNode, enginePeaks>>
  /\ NotifyStateChange
  /\ UNCHANGED <<restVars, out, engineVars, lastData, stateListeners>>

\* setVolume(volume)
SetVolume ==
  \E volume \in EngineVolumes :
    LET clampedVolume == RMax(Zero, RMin(One, volume))
    IN /\ EngineCall
       /\ gainNode' = IF gainNode # Null THEN [gain |-> clampedVolume]
                                           ELSE gainNode
       /\ audioElement' = IF audioElement # Null
                            THEN [audioElement EXCEPT !.volume = clampedVolume]
                            ELSE audioElement
       /\ UNCHANGED <<enginePeaks, playPromise>>
       /\ NotifyStateChange
       /\ UNCHANGED <<restVars, out, engineVars, lastData, stateListeners>>

\* seek(time)
Seek ==
  \E time \in -1..(MaxTime + 1) :
    /\ audioElement # Null
    /\ EngineCall
    /\ audioElement' = [audioElement EXCEPT
                          !.currentTime = Max(0, Min(MaxTime, time))]
    /\ UNCHANGED <<gainNode, enginePeaks, playPromise>>
    /\ NotifyStateChange
    /\ UNCHANGED <<restVars, out, engineVars, lastData, stateListeners>>

\* getState()
GetStateCall ==
  /\ EngineCall
  /\ reported' = GetState(audioElement, gainNode)
  /\ Unheard
  /\ UNCHANGED <<restVars, out, engineVars, lastData, audioElement, gainNode,
                 enginePeaks, playPromise, stateListeners>>

\* a variant without the test for the analyser
GetFrequencyData_NoGuard ==
  \E snapshot \in EngineSnapshots :
    /\ EngineCall
    /\ LET c == EngineBands[snapshot]
           p == UpdatePeaks(enginePeaks, c.values)
       IN /\ frequencyData' = snapshot
          /\ logarithmic' = c.values
          /\ binIndex' = c.indices
          /\ enginePeaks' = p
          /\ out' = [kind |-> "frequency", raw |-> snapshot,
                     logarithmic |-> c.values, peaks |-> p]
    /\ lastData' = enginePeaks
    /\ Unheard
    /\ UNCHANGED <<restVars, audioElement, gainNode, playPromise, reported,
                   stateListeners>>

\* getFrequencyData(): null without an analyser (the analyser and the gain
\* node are made and dropped together); else the snapshot is mapped to the
\* bands and the peaks are updated (lastData holds the peaks before)
GetFrequencyData ==
  \E snapshot \in EngineSnapshots :
    /\ EngineCall
    /\ IF gainNode = Null
       THEN /\ out' = [kind |-> "null"]
            /\ UNCHANGED <<engineVars, enginePeaks>>
       ELSE LET c == EngineBands[snapshot]
                p == UpdatePeaks(enginePeaks, c.values)
            IN /\ frequencyData' = snapshot
               /\ logarithmic' = c.values
               /\ binIndex' = c.indices
               /\ enginePeaks' = p
               /\ out' = [kind |-> "frequency", raw |-> snapshot,
                          logarithmic |-> c.values, peaks |-> p]
    /\ lastData' = enginePeaks
    /\ Unheard
    /\ UNCHANGED <<restVars, audioElement, gainNode, playPromise, reported,
                   stateListeners>>

\* getWaveformData(): null without an analyser; else the samples and their
\* normalisation
GetWaveformData ==
  \E wave \in EngineWaveforms :
    /\ EngineCall
    /\ out' = IF gainNode = Null THEN [kind |-> "null"]
              ELSE [kind |-> "waveform", raw |-> wave,
                    normalized |-> Normalize(wave)]
    /\ lastData' = enginePeaks
    /\ Unheard
    /\ UNCHANGED <<restVars, engineVars, audioElement, gainNode, enginePeaks,
                   playPromise, reported, stateListeners>>

\* addStateListener(listener)
AddStateListener ==
  \E listener \in Listeners :
    /\ EngineCall
    /\ stateListeners' = stateListeners \cup {listener}
    /\ heard' = [l \in Listeners |->
                   [heard[l] EXCEPT !.calls = 0,
                                    !.added = IF l = listener THEN @ + 1 ELSE @]]
    /\ UNCHANGED <<restVars, out, engineVars, lastData, audioElement, gainNode,
                   enginePeaks, playPromise, reported>>

\* removeStateListener(listener)
RemoveStateListener ==
  \E listener \in Listeners :
    /\ EngineCall
    /\ stateListeners' = stateListeners \ {listener}
    /\ heard' = [l \in Listeners |->
                   [heard[l] EXCEPT !.calls = 0,
                                    !.added = IF l = listener THEN 0 ELSE @]]
    /\ UNCHANGED <<restVars, out, engineVars, lastData, audioElement, gainNode,
                   enginePeaks, playPromise, reported>>

\* destroy(): cleanup, the context is closed, the listeners are cleared
Destroy ==
  /\ EngineCall
  /\ audioElement' = Null
  /\ gainNode' = Null
  /\ enginePeaks' = InitializePeaks
  /\ playPromise' = "none"
  /\ stateListeners' = {}
  /\ heard' = [l \in Listeners |-> [heard[l] EXCEPT !.calls = 0, !.added = 0]]
  /\ UNCHANGED <<restVars, out, engineVars, lastData, reported>>

NextEngine ==
  \/ LoadAudio
  \/ Loadeddata
  \/ PlayCall
  \/ PlayResolved
  \/ TimeAdvance
  \/ PauseCall
  \/ StopCall
  \/ SetVolume
  \/ Seek
  \/ GetStateCall
  \/ GetFrequencyData
  \/ GetWaveformData
  \/ AddStateListener
  \/ RemoveStateListener
  \/ Destroy

SpecEngine == InitEngine /\ [][NextEngine]_vars

\* the steps in which the engine reports a state
Reports ==
  \/ Loadeddata
  \/ PlayResolved
  \/ PauseCall
  \/ StopCall
  \/ SetVolume
  \/ Seek
  \/ GetStateCall

\* the latest play() has resolved and the element is not paused
PlayingSince ==
  /\ playPromise = "resolved"
  /\ audioElement # Null
  /\ ~audioElement.paused

\* C24: after play() has resolved and while the element is not paused, every
\* state the engine reports (getState and the listener notifications) has
\* isPlaying true, also while currentTime is still 0.
C24_PlayingFromStart ==
  [][(Reports /\ PlayingSince') => reported'.isPlaying]_vars

\* the band's peak was set by the value of the latest frame
AtPeak(i) == i <= Len(logarithmic) /\ logarithmic[i] = enginePeaks[i]

\* C26: the peaks getFrequencyData reports are held: in the frame in which a
\* band's value drops below the peak it has just set, the first of the 30
\* frames of the hold, the reported peak is still that peak.
C26_EnginePeakHold ==
  [][GetFrequencyData
     => \A i \in 1..FREQUENCY_BANDS :
          (AtPeak(i) /\ RLt(logarithmic'[i], enginePeaks[i]))
          => enginePeaks'[i] = enginePeaks[i]]_vars

(***************************************************************************)
(* Bounds of the peak state (SpecHold: peakDecay 1/2, frames of one band   *)
(* through the whole hold and into the decay, peakHold switched on and     *)
(* off).                                                                   *)
(***************************************************************************)
\* C30: with peakDecay in (0, 1) every stored peak value lies in [0, 1] and
\* every hold counter is an integer from 0 to 30.
C30_PeakStateBounds ==
  /\ RGt(config.peakDecay, Zero) /\ RLt(config.peakDecay, One)
  /\ Len(peakHoldFrames) = Len(peakValues)
  /\ \A i \in 1..Len(peakValues) :
       /\ InUnit(peakValues[i])
       /\ peakHoldFrames[i] \in 0..PEAK_HOLD_FRAMES

\* a peak that was held until its counter reached 0 and has decayed below
\* every positive band value of the frames
C30_Witness ==
  /\ peakHoldFrames[1] = 0
  /\ RGt(peakValues[1], Zero)
  /\ RLt(peakValues[1], R(1, 2))

(***************************************************************************)
(* SpecPage: the page with WMPVisualizer and PlayerControls under the      *)
(* mount, the user's operations (load, play, pause, stop, volume slider,   *)
(* visualizer type), the media events, the React effects, the animation    *)
(* frames and the 100 ms poll.                                             *)
(***************************************************************************)
MaxPageSteps == 2

\* the values the user moves the volume slider to
SliderValues == {Zero, R(1, 2)}

\* magnitude snapshots of the analyser: silence and a signal
PageSnapshots == {<<0, 0>>, <<0, 255>>}

\* the bars renderBars draws
RENDER_BAR_COUNT == 64

\* console messages, as their words (the leading pictograph left out)
LogAudioLoaded == <<"WMP", "Visualizer:", "Audio", "loaded">>
LogGraphConnected == <<"WMP", "Visualizer:", "Audio", "graph", "connected">>
LogFileLoaded == <<"File", "loaded", "successfully:">>
LogPlaying == <<"WMP", "Visualizer:", "Playing">>
LogPaused == <<"WMP", "Visualizer:", "Paused">>
LogStopped == <<"WMP", "Visualizer:", "Stopped">>
LogPlayError == <<"WMP", "Visualizer:", "Play", "error:">>

MaxFreq(data) == CHOOSE m \in {data[k] : k \in 1..Len(data)} :
                   \A k \in 1..Len(data) : data[k] <= m

\* the message a frame logs while the audio plays
LogRender(type, data) ==
  IF type = "circular"
  THEN <<"Circular", "Render:", "maxFreq=" \o ToString(MaxFreq(data)) \o ",",
         "playing=true">>
  ELSE <<"Render:", "maxFreq=" \o ToString(MaxFreq(data)) \o ",",
         "playing=true">>

\* new Audio() of WMPVisualizer.loadAudio; pendingPlay: the visualizer type
\* of the play() that waits for the data, or "none"
NewPageAudio ==
  [paused |-> TRUE, currentTime |-> 0, volume |-> One, loaded |-> FALSE,
   ended |-> FALSE, pendingPlay |-> "none"]

\* what the closures of window.wmpVisualizer see: the state and the props of
\* the render whose effect exposed them
Expose(st, type) ==
  [isPlaying |-> st.isPlaying, currentTime |-> st.currentTime,
   duration |-> st.duration, volume |-> st.volume, visualizerType |-> type]

\* a variant of the dependencies without the volume
ExposeDeps_NoVolume(st) == <<st.currentTime, st.duration, st.isPlaying>>

\* the dependencies of the exposing effect
ExposeDeps(st) == <<st.currentTime, st.duration, st.volume, st.isPlaying>>

\* the effects waiting once the state st is set
Scheduled(st, eff) ==
  IF ExposeDeps(st) # ExposeDeps(vizState) THEN eff \cup {"expose"} ELSE eff

\* renderStatic
RenderStatic(type) ==
  [drawing |-> IF type = "circular" THEN "staticCircle" ELSE "black",
   bars |-> <<>>]

\* renderBars: the canvas is cleared; while the element plays, bars of the
\* magnitudes, or of the test pattern when every magnitude is 0
RenderBars(playing, data) ==
  IF ~playing THEN [drawing |-> "black", bars |-> <<>>]
  ELSE IF MaxFreq(data) > 0
  THEN [drawing |-> "bars",
        bars |-> [i \in 1..RENDER_BAR_COUNT |->
                    data[((i - 1) * Len(data)) \div RENDER_BAR_COUNT + 1]]]
  ELSE [drawing |-> "testBars", bars |-> <<>>]

\* renderCircular
RenderCircular(playing, data) ==
  IF ~playing THEN [drawing |-> "idleCircle", bars |-> <<>>]
  ELSE IF MaxFreq(data) > 0 THEN [drawing |-> "wave", bars |-> <<>>]
  ELSE [drawing |-> "testWave", bars |-> <<>>]

\* renderVisualization of a render with the given visualizer type: nothing
\* without an analyser; else the frame is drawn and the next one requested
RenderVisualization(type, an, el, data, cv, log) ==
  IF ~an THEN [canvas |-> cv, frame |-> Null, console |-> log, read |-> FALSE]
  ELSE LET playing == el # Null /\ ~el.paused
       IN [canvas |-> IF type = "circular" THEN RenderCircular(playing, data)
                      ELSE RenderBars(playing, data),
           frame |-> [visualizerType |-> type],
           console |-> IF playing THEN log \cup {LogRender(type, data)} ELSE log,
           read |-> (type = "bars" \/ playing)]

\* cancelAnimationFrame(animationFrameRef.current), called when the ref is
\* set: the callback with that id, if it is still pending, is dropped
CancelAnimationFrame_None(queue, ref) == queue

CancelAnimationFrame(queue, ref) ==
  IF ref = Null THEN queue ELSE {cb \in queue : cb.id # ref.id}

\* the id of a new request: one that no pending callback has (the ids are
\* only compared with the ref, which every request overwrites)
RequestId(queue) ==
  CHOOSE id \in 1..(Cardinality(queue) + 1) :
    LET used(n) == \E cb \in queue : cb.id = n
    IN ~used(id) /\ \A n \in 1..(id - 1) : used(n)

\* the ref and the pending callbacks after a call of renderVisualization
\* that returned the request frame (Null: nothing requested)
RequestAnimationFrame(queue, ref, frame) ==
  IF frame = Null THEN [ref |-> ref, queue |-> queue]
  ELSE LET id == RequestId(queue)
       IN [ref |-> [id |-> id],
           queue |-> queue \cup {[id |-> id,
                                  visualizerType |-> frame.visualizerType]}]

InitPage ==
  /\ Constructed(MapConfig)
  /\ frequencyData = <<>>
  /\ logarithmic = <<>>
  /\ binIndex = <<>>
  /\ hist = <<>>
  /\ steps = 0
  /\ lastData = <<>>
  /\ stepInput = <<>>
  /\ twin = <<>>
  /\ AppIdle

\* the variables of the manager and of the engine
offPageVars ==
  <<mgrVars, out, logarithmic, binIndex, hist, lastData, stepInput, twin,
    playerVars, provider>>

\* one operation of the user
PageStep == steps < MaxPageSteps /\ steps' = steps + 1

\* WMPVisualizer mounts: the canvas is rendered and the three effects run
\* (window.wmpVisualizer is set, renderStatic twice)
Mount ==
  /\ canvas = Null
  /\ canvas' = RenderStatic(visualizerType)
  /\ wmpVisualizer' = Expose(vizState, visualizerType)
  /\ UNCHANGED <<offPageVars, frequencyData, steps, visualizerType, vizState,
                 controls, audioElementRef, analyserRef, loopVars,
                 console, effects, slider>>

\* the interval of PlayerControls
Poll ==
  /\ wmpVisualizer # Null
  /\ controls' = [isPlaying |-> wmpVisualizer.isPlaying,
                  currentTime |-> wmpVisualizer.currentTime,
                  duration |-> wmpVisualizer.duration,
                  volume |-> wmpVisualizer.volume]
  /\ UNCHANGED <<offPageVars, frequencyData, steps, visualizerType, canvas,
                 vizState, wmpVisualizer, audioElementRef, analyserRef,
                 loopVars, console, effects, slider>>

\* handleFileChange, loadAudio up to its wait for loadeddata: the old
\* element is paused (its pause listener clears isPlaying), a new one made
HandleFileChange ==
  /\ wmpVisualizer # Null
  /\ PageStep
  /\ audioElementRef' = NewPageAudio
  /\ LET st == IF audioElementRef # Null /\ ~audioElementRef.paused
                 THEN [vizState EXCEPT !.isPlaying = FALSE] ELSE vizState
     IN /\ vizState' = st
        /\ effects' = Scheduled(st, effects)
  /\ UNCHANGED <<offPageVars, frequencyData, visualizerType, canvas,
                 wmpVisualizer, controls, analyserRef, loopVars,
                 console, slider>>

\* the loadeddata listener: setupAudioGraph, setHasAudio, setDuration; a
\* play() that waited for the data goes on (log, cancel, renderVisualization)
PageLoadeddata ==
  \E data \in PageSnapshots :
    /\ audioElementRef # Null
    /\ ~audioElementRef.loaded
    /\ analyserRef' = TRUE
    /\ audioElementRef' = [audioElementRef EXCEPT !.loaded = TRUE,
                                                  !.pendingPlay = "none"]
    /\ LET st == [vizState EXCEPT !.hasAudio = TRUE, !.duration = MaxTime]
           log == console \cup {LogAudioLoaded, LogGraphConnected, LogFileLoaded}
           r == RenderVisualization(audioElementRef.pendingPlay, TRUE,
                                    audioElementRef', data, canvas,
                                    log \cup {LogPlaying})
           resumes == audioElementRef.pendingPlay # "none"
           loop == RequestAnimationFrame(
                     CancelAnimationFrame(rafQueue, animationFrameRef),
                     animationFrameRef, r.frame)
       IN /\ vizState' = st
          /\ effects' = Scheduled(st, effects)
          /\ console' = IF resumes THEN r.console ELSE log
          /\ canvas' = IF resumes THEN r.canvas ELSE canvas
          /\ animationFrameRef' = IF resumes THEN loop.ref ELSE animationFrameRef
          /\ rafQueue' = IF resumes THEN loop.queue ELSE rafQueue
          /\ frequencyData' = IF resumes /\ r.read THEN data ELSE frequencyData
    /\ UNCHANGED <<offPageVars, steps, visualizerType, wmpVisualizer, controls,
                   slider>>

\* handlePlay, play(): the element leaves paused (its play listener sets
\* isPlaying); with the data loaded play() goes on at once, else it waits
HandlePlay ==
  \E data \in PageSnapshots :
    /\ wmpVisualizer # Null
    /\ audioElementRef # Null
    /\ PageStep
    /\ LET loaded == audioElementRef.loaded
           el == [audioElementRef EXCEPT
                    !.paused = FALSE,
                    !.currentTime = IF audioElementRef.ended THEN 0 ELSE @,
                    !.ended = FALSE,
                    !.pendingPlay = IF loaded THEN "none"
                                    ELSE wmpVisualizer.visualizerType]
           st == [vizState EXCEPT !.isPlaying = TRUE]
           r == RenderVisualization(wmpVisualizer.visualizerType, analyserRef,
                                    el, data, canvas, console \cup {LogPlaying})
           loop == RequestAnimationFrame(
                     CancelAnimationFrame(rafQueue, animationFrameRef),
                     animationFrameRef, r.frame)
       IN /\ audioElementRef' = el
          /\ vizState' = st
          /\ effects' = Scheduled(st, effects)
          /\ console' = IF loaded THEN r.console ELSE console
          /\ canvas' = IF loaded THEN r.canvas ELSE canvas
          /\ animationFrameRef' = IF loaded THEN loop.ref ELSE animationFrameRef
          /\ rafQueue' = IF loaded THEN loop.queue ELSE rafQueue
          /\ frequencyData' = IF loaded /\ r.read THEN data ELSE frequencyData
    /\ UNCHANGED <<offPageVars, visualizerType, wmpVisualizer, controls,
                   analyserRef, slider>>

\* the playback position advances; the timeupdate listener
TimeUpdate ==
  /\ audioElementRef # Null
  /\ audioElementRef.loaded
  /\ ~audioElementRef.paused
  /\ ~audioElementRef.ended
  /\ audioElementRef.currentTime < MaxTime
  /\ audioElementRef' = [audioElementRef EXCEPT !.currentTime = @ + 1]
  /\ LET st == [vizState EXCEPT !.currentTime = audioElementRef.currentTime + 1]
     IN /\ vizState' = st
        /\ effects' = Scheduled(st, effects)
  /\ UNCHANGED <<offPageVars, frequencyData, steps, visualizerType, canvas,
                 wmpVisualizer, controls, analyserRef, loopVars,
                 console, slider>>

\* the end of the file; the ended listener (the element stays not paused)
Ended ==
  /\ audioElementRef # Null
  /\ audioElementRef.loaded
  /\ ~audioElementRef.paused
  /\ ~audioElementRef.ended
  /\ audioElementRef.currentTime = MaxTime
  /\ audioElementRef' = [audioElementRef EXCEPT !.ended = TRUE]
  /\ LET st == [vizState EXCEPT !.isPlaying = FALSE, !.currentTime = 0]
     IN /\ vizState' = st
        /\ effects' = Scheduled(st, effects)
  /\ UNCHANGED <<offPageVars, frequencyData, steps, visualizerType, canvas,
                 wmpVisualizer, controls, analyserRef, loopVars,
                 console, slider>>

\* handlePause, pause(); a play() still waiting is rejected and logs its error
HandlePause ==
  /\ wmpVisualizer # Null
  /\ audioElementRef # Null
  /\ PageStep
  /\ audioElementRef' = [audioElementRef EXCEPT !.paused = TRUE,
                                                !.pendingPlay = "none"]
  /\ LET st == IF audioElementRef.paused THEN vizState
               ELSE [vizState EXCEPT !.isPlaying = FALSE]
     IN /\ vizState' = st
        /\ effects' = Scheduled(st, effects)
  /\ console' = console \cup {LogPaused}
                  \cup (IF audioElementRef.pendingPlay # "none"
                          THEN {LogPlayError} ELSE {})
  /\ UNCHANGED <<offPageVars, frequencyData, visualizerType, canvas,
                 wmpVisualizer, controls, analyserRef, loopVars,
                 slider>>

\* handleStop, stop(): pause and rewind, cancel the frame, renderStatic
HandleStop ==
  /\ wmpVisualizer # Null
  /\ PageStep
  /\ audioElementRef' =
       IF audioElementRef = Null THEN Null
       ELSE [audioElementRef EXCEPT !.paused = TRUE, !.currentTime = 0,
                                    !.ended = FALSE, !.pendingPlay = "none"]
  /\ LET st == IF audioElementRef = Null THEN vizState
               ELSE [vizState EXCEPT
                       !.isPlaying = IF audioElementRef.paused THEN @ ELSE FALSE,
                       !.currentTime = IF audioElementRef.loaded THEN 0 ELSE @]
     IN /\ vizState' = st
        /\ effects' = Scheduled(st, effects)
  /\ console' = console
                  \cup (IF audioElementRef # Null THEN {LogStopped} ELSE {})
                  \cup (IF audioElementRef # Null
                           /\ audioElementRef.pendingPlay # "none"
                          THEN {LogPlayError} ELSE {})
  /\ rafQueue' = CancelAnimationFrame(rafQueue, animationFrameRef)
  /\ animationFrameRef' = Null
  /\ canvas' = RenderStatic(wmpVisualizer.visualizerType)
  /\ UNCHANGED <<offPageVars, frequencyData, visualizerType, wmpVisualizer,
                 controls, analyserRef, slider>>

\* the user moves the volume slider: handleVolumeChange, setVolume(vol) of
\* window.wmpVisualizer when it is there
HandleVolumeChange ==
  \E vol \in SliderValues :
    /\ PageStep
    /\ slider' = [value |-> vol, moves |-> steps + 1,
                  rendered |-> (canvas # Null)]
    /\ IF wmpVisualizer = Null
       THEN UNCHANGED <<vizState, effects, audioElementRef>>
       ELSE LET st == [vizState EXCEPT !.volume = vol]
            IN /\ vizState' = st
               /\ effects' = Scheduled(st, effects)
               /\ audioElementRef' =
                    IF audioElementRef = Null THEN Null
                    ELSE [audioElementRef EXCEPT !.volume = vol]
    /\ UNCHANGED <<offPageVars, frequencyData, visualizerType, canvas,
                   wmpVisualizer, controls, analyserRef, loopVars,
                   console>>

\* a click on the other visualizer type: setVisualizerType of Home; the
\* mounted WMPVisualizer renders again and its type effect waits
SwitchType ==
  \E type \in {"bars", "circular"} :
    /\ type # visualizerType
    /\ PageStep
    /\ visualizerType' = type
    /\ effects' = IF canvas # Null THEN effects \cup {"type"} ELSE effects
    /\ UNCHANGED <<offPageVars, frequencyData, canvas, vizState, wmpVisualizer,
                   controls, audioElementRef, analyserRef, loopVars,
                   console, slider>>

\* the effect on visualizerType: cancel the frame; renderVisualization when
\* playing, else renderStatic
TypeEffect ==
  \E data \in PageSnapshots :
    /\ "type" \in effects
    /\ effects' = effects \ {"type"}
    /\ LET playing == /\ vizState.isPlaying
                      /\ audioElementRef # Null
                      /\ ~audioElementRef.paused
           r == RenderVisualization(visualizerType, analyserRef,
                                    audioElementRef, data, canvas, console)
           cancelled == CancelAnimationFrame(rafQueue, animationFrameRef)
           loop == RequestAnimationFrame(cancelled, Null, r.frame)
       IN /\ canvas' = IF playing THEN r.canvas ELSE RenderStatic(visualizerType)
          /\ animationFrameRef' = IF playing THEN loop.ref ELSE Null
          /\ rafQueue' = IF playing THEN loop.queue ELSE cancelled
          /\ console' = IF playing THEN r.console ELSE console
          /\ frequencyData' = IF playing /\ r.read THEN data ELSE frequencyData
    /\ UNCHANGED <<offPageVars, steps, visualizerType, vizState, wmpVisualizer,
                   controls, audioElementRef, analyserRef, slider>>

\* the effect on currentTime, duration, volume, isPlaying: window.wmpVisualizer
\* is set to the closures of the latest render
ExposeEffect ==
  /\ "expose" \in effects
  /\ effects' = effects \ {"expose"}
  /\ wmpVisualizer' = Expose(vizState, visualizerType)
  /\ UNCHANGED <<offPageVars, frequencyData, steps, visualizerType, canvas,
                 vizState, controls, audioElementRef, analyserRef,
                 loopVars, console, slider>>

\* a pending animation frame callback runs: renderVisualization of the
\* render that requested it
AnimationFrame ==
  \E data \in PageSnapshots, cb \in rafQueue :
    /\ LET r == RenderVisualization(cb.visualizerType, analyserRef,
                                    audioElementRef, data, canvas, console)
           loop == RequestAnimationFrame(rafQueue \ {cb}, animationFrameRef,
                                         r.frame)
       IN /\ canvas' = r.canvas
          /\ animationFrameRef' = loop.ref
          /\ rafQueue' = loop.queue
          /\ console' = r.console
          /\ frequencyData' = IF r.read THEN data ELSE frequencyData
    /\ UNCHANGED <<offPageVars, steps, visualizerType, vizState, wmpVisualizer,
                   controls, audioElementRef, analyserRef, effects, slider>>

NextPage ==
  \/ Mount
  \/ Poll
  \/ HandleFileChange
  \/ PageLoadeddata
  \/ HandlePlay
  \/ TimeUpdate
  \/ Ended
  \/ HandlePause
  \/ HandleStop
  \/ HandleVolumeChange
  \/ SwitchType
  \/ TypeEffect
  \/ ExposeEffect
  \/ AnimationFrame

SpecPage == InitPage /\ [][NextPage]_vars

(***************************************************************************)
(* Properties of the rendered frames (SpecPage).                           *)
(***************************************************************************)
\* the step draws bars on the canvas
DrawsBars ==
  /\ canvas' # canvas
  /\ canvas'.drawing \in {"bars", "testBars"}

\* C25: zero fake bars: a frame draws bars only while the audio element
\* plays and the frequency snapshot is not all zero, and the bars are those
\* of the snapshot's magnitudes; in every other frame of the bars mode the
\* canvas is only cleared to black.
C25_ZeroFakeBars ==
  [][DrawsBars
     => /\ audioElementRef' # Null
        /\ ~audioElementRef'.paused
        /\ MaxFreq(frequencyData') > 0
        /\ canvas'.drawing = "bars"
        /\ \A i \in 1..RENDER_BAR_COUNT :
             \E k \in 1..Len(frequencyData') :
               canvas'.bars[i] = frequencyData'[k]]_vars

(***************************************************************************)
(* Properties of the volume shown by the player controls (SpecPage).       *)
(***************************************************************************)
\* C27: from the page load until the user's first move of the volume
\* slider the player controls show the volume 0%, also after an audio file
\* has been loaded: the poll never changes it.
C27_VolumeZeroByDefault ==
  slider = Null => Percent(controls.volume) = 0

\* SpecPageFair: the page with the exposing effect run after every render
\* that changed its dependencies and the interval of PlayerControls firing
\* again and again
SpecPageFair == SpecPage /\ WF_vars(ExposeEffect) /\ WF_vars(Poll)

\* the user's latest move of the slider, made with the canvas rendered,
\* went to vol
MovedTo(vol) ==
  /\ slider # Null
  /\ slider.rendered
  /\ slider.value = vol

\* the player controls display vol from what window.wmpVisualizer reports
Displays(vol) ==
  /\ wmpVisualizer # Null
  /\ wmpVisualizer.volume = vol
  /\ controls.volume = vol
  /\ Percent(controls.volume) = Percent(vol)

\* C28: after the user has moved the volume slider to vol, the player
\* controls eventually display vol (unless the slider is moved again
\* first), they go on displaying it until the next move, and the visualizer
\* canvas stays rendered.
C28_VolumeDisplayed ==
  /\ \A vol \in SliderValues :
       MovedTo(vol) ~> (Displays(vol) \/ ~MovedTo(vol))
  /\ [][\A vol \in SliderValues :
          (slider' = slider /\ MovedTo(vol) /\ Displays(vol))
          => Displays(vol)']_vars
  /\ [](\A vol \in SliderValues : MovedTo(vol) => canvas # Null)

\* the controls show 50% after the slider went to 0.5
C28_Witness ==
  /\ MovedTo(R(1, 2))
  /\ Displays(R(1, 2))
  /\ Percent(controls.volume) = 50

(***************************************************************************)
(* Properties of the console (SpecPage).                                   *)
(***************************************************************************)
\* the message contains the words, in a row
Contains(msg, words) ==
  \E k \in 0..(Len(msg) - Len(words)) :
    SubSeq(msg, k + 1, k + Len(words)) = words

\* a message logged so far contains the words
Logged(log, words) == \E msg \in log : Contains(msg, words)

\* the audio plays, as the effect on visualizerType tests it
AudioPlaying ==
  /\ vizState.isPlaying
  /\ audioElementRef # Null
  /\ ~audioElementRef.paused

\* C29: switching the visualizer type is observable in the console: once
\* the effect of a switch has run, a message containing "visualizerType
\* changed to: " and the new type has been logged, and after a switch to
\* circular with no audio playing also a message containing "Rendering
\* static visualization".
C29_TypeSwitchLogged ==
  [][TypeEffect
     => /\ Logged(console', <<"visualizerType", "changed", "to:", visualizerType>>)
        /\ (visualizerType = "circular" /\ ~AudioPlaying)
           => Logged(console', <<"Rendering", "static", "visualization">>)]_vars

(***************************************************************************)
(* Properties of the smoother state (SpecSmooth).                          *)
(***************************************************************************)
\* C31: with an amplification >= 0, a smoothing factor in (0, 1] and band
\* values in [0, 1] in every frame, every value stored in the smoother
\* state lies in [0, 1].
C31_SmoothedInUnit ==
  \A i \in 1..Len(smoothedValues) : InUnit(smoothedValues[i])

(***************************************************************************)
(* Properties of the peak marker (SpecPeak).                               *)
(***************************************************************************)
\* C35: in every analysed bars frame with peakHold enabled, the peak
\* reported for a band is at least the height of the band in that frame.
C35_PeakAboveBar ==
  (out.kind = "bars" /\ config.peakHold)
  => \A i \in 1..Len(out.heights) : RGe(out.peaks[i], out.heights[i])

(***************************************************************************)
(* SpecQuiet: a manager of one bar under analysed and silence frames of    *)
(* both generators, next to a manager that is given the analysed frames    *)
(* only (twin).                                                            *)
(***************************************************************************)
MaxQuietSteps == 4     \* frames per behaviour of SpecQuiet
MaxQuietCircular == 1  \* analysed circular frames per behaviour of SpecQuiet

QuietConfig ==
  [barCount |-> 1, colorScheme |-> "wmp", peakHold |-> TRUE,
   peakDecay |-> R(1, 2), smoothing |-> One, amplification |-> One]

QuietData == {<<Zero>>, <<One>>}

\* the state of the manager, as the twin keeps it
ManagerState ==
  [peakValues |-> peakValues, peakHoldFrames |-> peakHoldFrames,
   smoothedValues |-> smoothedValues, rotation |-> rotation]

\* quiet: the silence frames since the latest analysed frame; run: those
\* that came just before it; circular: the analysed circular frames so far
InitQuiet ==
  /\ Constructed(QuietConfig)
  /\ frequencyData = <<>>
  /\ logarithmic = <<>>
  /\ binIndex = <<>>
  /\ hist = <<>>
  /\ steps = 0
  /\ lastData = <<>>
  /\ stepInput = <<>>
  /\ twin = [state |-> ManagerState, frame |-> Null, quiet |-> 0, run |-> 0,
             circular |-> 0]
  /\ AppIdle

QuietStep == steps < MaxQuietSteps /\ steps' = steps + 1

\* an analysed bars frame of the manager and of its twin
QuietBarsFrame ==
  \E data \in QuietData :
    /\ QuietStep
    /\ GenerateBarsVisualization([logarithmic |-> data])
    /\ lastData' = data
    /\ LET h == CalculateBarHeights(config, twin.state.smoothedValues, data)
           p == CalculatePeaks(config, twin.state.peakValues,
                               twin.state.peakHoldFrames, h.heights)
       IN twin' = [state |-> [twin.state EXCEPT
                                !.smoothedValues = h.state,
                                !.peakValues = p.peakValues,
                                !.peakHoldFrames = p.peakHoldFrames],
                   frame |-> [heights |-> h.heights, peaks |-> p.peaks],
                   quiet |-> 0, run |-> twin.quiet,
                   circular |-> twin.circular]
    /\ UNCHANGED <<engineVars, hist, stepInput, appVars>>

\* a silence bars frame of the manager; the twin is given none
QuietSilentBars ==
  /\ QuietStep
  /\ GenerateBarsVisualization(Null)
  /\ lastData' = <<>>
  /\ twin' = [twin EXCEPT !.quiet = @ + 1]
  /\ UNCHANGED <<engineVars, hist, stepInput, appVars>>

\* an analysed circular frame of the manager and of its twin
QuietCircularFrame ==
  \E wave \in {<<0, 128>>} :
    /\ QuietStep
    /\ twin.circular < MaxQuietCircular
    /\ GenerateCircularVisualization([normalized |-> Normalize(wave)], 800, 600)
    /\ lastData' = <<>>
    /\ LET pts == CircularPointsFrom(config,
                     [points |-> <<>>, state |-> twin.state.smoothedValues],
                     Normalize(wave))
           turned == RAdd(twin.state.rotation,
                          RAdd(R(1, 100),
                               RMul(CalculateAverageAmplitude(Normalize(wave)),
                                    R(5, 100))))
       IN twin' = [state |-> [twin.state EXCEPT !.smoothedValues = pts.state,
                                                !.rotation = turned],
                   frame |-> [points |-> pts.points, rotation |-> turned],
                   quiet |-> 0, run |-> twin.quiet,
                   circular |-> twin.circular + 1]
    /\ UNCHANGED <<engineVars, hist, stepInput, appVars>>

\* a silence circular frame of the manager; the twin is given none
QuietSilentCircular ==
  /\ QuietStep
  /\ GenerateCircularVisualization(Null, 800, 600)
  /\ lastData' = <<>>
  /\ twin' = [twin EXCEPT !.quiet = @ + 1]
  /\ UNCHANGED <<engineVars, hist, stepInput, appVars>>

NextQuiet ==
  \/ QuietBarsFrame
  \/ QuietSilentBars
  \/ QuietCircularFrame
  \/ QuietSilentCircular

SpecQuiet == InitQuiet /\ [][NextQuiet]_vars

\* the analysed frame reported is the one the twin computed
SameFrame ==
  /\ out.kind = "bars"
     => (out.heights = twin.frame.heights /\ out.peaks = twin.frame.peaks)
  /\ out.kind = "circular"
     => (out.points = twin.frame.points /\ out.rotation = twin.frame.rotation)

\* C33: a silence frame of either generator leaves the peak values, the
\* hold counters, the smoother values and the rotation as they were, so
\* that the state is at any time that of a manager given the analysed
\* frames only and the first analysed frame after a run of silence frames
\* is the one that manager returns: nothing is counted down or decayed
\* during the silence.
C33_SilenceKeepsState ==
  /\ [][(QuietSilentBars \/ QuietSilentCircular)
        => UNCHANGED <<peakValues, peakHoldFrames, smoothedValues, rotation>>]_vars
  /\ [](ManagerState = twin.state)
  /\ [](SameFrame)

\* an analysed bars frame follows two silence frames that came after a new
\* peak: the hold has counted the analysed frame only
C33_Witness ==
  /\ steps = 4
  /\ out.kind = "bars"
  /\ twin.run = 2
  /\ peakValues[1] = One
  /\ peakHoldFrames[1] = PEAK_HOLD_FRAMES - 1

(***************************************************************************)
(* SpecRing: a manager of 256 bars, so that each of the 256 points of a    *)
(* circular frame has a smoother entry of its own, under bars frames,      *)
(* circular frames and updateConfig calls.                                 *)
(***************************************************************************)
MaxRingSteps == 3  \* operations per behaviour of SpecRing

RingConfigs ==
  {[barCount |-> POINT_COUNT, colorScheme |-> "wmp", peakHold |-> TRUE,
    peakDecay |-> R(19, 20), smoothing |-> f, amplification |-> a] :
     <<f, a>> \in {<<One, One>>, <<R(1, 2), RInt(2)>>}}

\* band values: every band at 1, every band at 0
RingData == {[i \in 1..POINT_COUNT |-> v] : v \in {Zero, One}}

\* byte waveforms: the loudest sample, silence
RingWaveforms == {<<0>>, <<128>>}

RingPartials ==
  {[amplification |-> RInt(2)], [smoothing |-> R(1, 2)], [smoothing |-> One]}

InitRing ==
  /\ \E cfg \in RingConfigs : Constructed(cfg)
  /\ frequencyData = <<>>
  /\ logarithmic = <<>>
  /\ binIndex = <<>>
  /\ hist = <<>>
  /\ steps = 0
  /\ lastData = <<>>
  /\ stepInput = <<>>
  /\ twin = <<>>
  /\ AppIdle

RingStep == steps < MaxRingSteps /\ steps' = steps + 1

RingBarsFrame ==
  \E data \in RingData :
    /\ RingStep
    /\ GenerateBarsVisualization([logarithmic |-> data])
    /\ lastData' = data
    /\ UNCHANGED <<engineVars, hist, stepInput, twin, appVars>>

RingCircularFrame ==
  \E wave \in RingWaveforms :
    /\ RingStep
    /\ GenerateCircularVisualization([normalized |-> Normalize(wave)], 800, 600)
    /\ lastData' = Normalize(wave)
    /\ UNCHANGED <<engineVars, hist, stepInput, twin, appVars>>

RingUpdate ==
  \E newConfig \in RingPartials :
    /\ RingStep
    /\ UpdateConfig(newConfig)
    /\ lastData' = <<>>
    /\ UNCHANGED <<engineVars, hist, stepInput, twin, appVars>>

NextRing == RingBarsFrame \/ RingCircularFrame \/ RingUpdate

SpecRing == InitRing /\ [][NextRing]_vars

\* C32: every point of every analysed circular frame has an amplitude in
\* [0, 1], after any interleaving of bars frames, circular frames and
\* updateConfig calls with an amplification >= 0 and a smoothing factor in
\* (0, 1].
C32_AmplitudeInUnit ==
  out.kind = "circular"
  => \A i \in 1..Len(out.points) : InUnit(out.points[i].amplitude)

(***************************************************************************)
(* Properties of the engine without an analyser (SpecEngine).              *)
(***************************************************************************)
\* C39: getFrequencyData and getWaveformData return null whenever there is
\* no analyser, that is before the first loadAudio has completed, from the
\* cleanup at the start of a later loadAudio to its loadeddata event, and
\* after destroy(); such a call leaves the peaks of the engine as they
\* were; cleanup() sets every peak of the engine to 0.
C39_NullWithoutAnalyser ==
  /\ [][((GetFrequencyData \/ GetWaveformData) /\ gainNode = Null)
        => (out'.kind = "null" /\ enginePeaks' = enginePeaks)]_vars
  /\ [][(LoadAudio \/ Destroy)
        => (gainNode' = Null /\ enginePeaks' = InitializePeaks)]_vars
  /\ [][(gainNode = Null /\ gainNode' # Null) => Loadeddata]_vars
  /\ [](audioElement = Null => gainNode = Null)

\* getFrequencyData returned null after the loadAudio of a second file,
\* the snapshot of the first file still in the engine's array
C39_Witness ==
  /\ out.kind = "null"
  /\ audioElement # Null
  /\ gainNode = Null
  /\ frequencyData # <<>>
  /\ enginePeaks = InitializePeaks

(***************************************************************************)
(* Properties of the state listeners (SpecEngine).                         *)
(***************************************************************************)
\* the operations that end with notifyStateChange
Notifies == PauseCall \/ StopCall \/ Seek \/ SetVolume \/ PlayResolved

\* the listener has been added and not removed or cleared since
Registered(l) == heard[l].added > 0

\* C40: with an audio element, every pause(), stop(), seek(), setVolume()
\* and play() that succeeds invokes each registered listener exactly once,
\* with the state the engine then has; a listener that was removed, or
\* cleared by destroy(), is not invoked until it is added again; a listener
\* added twice is invoked once.
C40_ListenersNotified ==
  /\ [][(Notifies /\ audioElement # Null)
        => \A l \in Listeners :
             Registered(l)
             => /\ heard'[l].calls = 1
                /\ heard'[l].state = GetState(audioElement', gainNode')]_vars
  /\ [][\A l \in Listeners :
          ~Registered(l)
          => (heard'[l].calls = 0 /\ heard'[l].state = heard[l].state)]_vars
  /\ [](\A l \in Listeners : Registered(l) <=> l \in stateListeners)

\* pause() has invoked once a listener that was added twice
C40_Witness ==
  /\ audioElement # Null
  /\ audioElement.paused
  /\ heard["listener"].added = 2
  /\ heard["listener"].calls = 1
  /\ heard["listener"].state = GetState(audioElement, gainNode)

(***************************************************************************)
(* SpecLoop: the page once WMPVisualizer has mounted and a first file is   *)
(* loaded (loadeddata has set up the graph, the effects have run), under   *)
(* the user's operations on the player (load, play, pause, stop,           *)
(* visualizer type), the media events, the effects and the animation       *)
(* frames.                                                                 *)
(***************************************************************************)
\* the state of WMPVisualizer after the first loadeddata
LoadedVizState ==
  [InitialVizState EXCEPT !.hasAudio = TRUE, !.duration = MaxTime]

InitLoop ==
  /\ Constructed(MapConfig)
  /\ frequencyData = <<>>
  /\ logarithmic = <<>>
  /\ binIndex = <<>>
  /\ hist = <<>>
  /\ steps = 0
  /\ lastData = <<>>
  /\ stepInput = <<>>
  /\ twin = <<>>
  /\ EngineIdle
  /\ provider = ProviderIdle
  /\ visualizerType = "bars"
  /\ canvas = RenderStatic("bars")
  /\ vizState = LoadedVizState
  /\ wmpVisualizer = Expose(LoadedVizState, "bars")
  /\ controls = InitialControls
  /\ audioElementRef = [NewPageAudio EXCEPT !.loaded = TRUE]
  /\ analyserRef = TRUE
  /\ animationFrameRef = Null
  /\ rafQueue = {}
  /\ console = {LogAudioLoaded, LogGraphConnected, LogFileLoaded}
  /\ effects = {}
  /\ slider = Null

NextLoop ==
  \/ HandleFileChange
  \/ PageLoadeddata
  \/ HandlePlay
  \/ TimeUpdate
  \/ Ended
  \/ HandlePause
  \/ HandleStop
  \/ SwitchType
  \/ TypeEffect
  \/ ExposeEffect
  \/ AnimationFrame

SpecLoop == InitLoop /\ [][NextLoop]_vars

(***************************************************************************)
(* Properties of the render loop (SpecLoop).                               *)
(***************************************************************************)
\* C34: under every interleaving of play (also a play that waits for the
\* data while another is called), pause, stop, changes of the visualizer
\* type and animation frame callbacks, at most one animation frame
\* callback is pending; after stop() none is pending.
C34_OneRenderLoop ==
  /\ [](Cardinality(rafQueue) <= 1)
  /\ [](\A cb \in rafQueue :
          animationFrameRef # Null /\ animationFrameRef.id = cb.id)
  /\ [][HandleStop => rafQueue' = {}]_vars

\* stop() has ended the loop that a play() started
C34_Witness ==
  /\ LogPlaying \in console
  /\ LogStopped \in console
  /\ canvas = RenderStatic(visualizerType)
  /\ audioElementRef # Null
  /\ audioElementRef.paused
  /\ rafQueue = {}
  /\ animationFrameRef = Null

\* what the renderer of a visualizer type draws
Drawings(type) ==
  IF type = "circular" THEN {"idleCircle", "wave", "testWave"}
  ELSE {"black", "bars", "testBars"}

\* C36: while the render loop runs, the renderer that an animation frame
\* executes (once the effects of the latest render have run) is the one of
\* the selected visualizerType, for every order of loading audio, switching
\* the type while paused or playing, and starting the playback through
\* window.wmpVisualizer.play.
C36_RendererMatchesType ==
  [][(AnimationFrame /\ effects = {})
     => canvas'.drawing \in Drawings(visualizerType)]_vars

(***************************************************************************)
(* Properties of the volume of the audio element (SpecPage).               *)
(***************************************************************************)
\* C38: whenever an audio element exists, its volume is the volume that
\* window.wmpVisualizer.getVolume() reports (once the exposing effect of
\* the latest render has run), for every order of setVolume and loadAudio.
C38_ElementVolumeReported ==
  (audioElementRef # Null /\ wmpVisualizer # Null /\ "expose" \notin effects)
    => audioElementRef.volume = wmpVisualizer.volume

(***************************************************************************)
(* SpecProvider: AudioProvider over the engine. Its mount effect has       *)
(* created the engine and added handleStateChange, which copies every      *)
(* notified state to audioState; the user loads, plays, pauses, stops,     *)
(* seeks and sets the volume through the provider; the start/stop effect   *)
(* runs after every render that changed audioState.isPlaying or            *)
(* isVisualizationActive.                                                  *)
(***************************************************************************)
\* audioState.isPlaying: of the initial state until the first notification
AudioStateIsPlaying ==
  /\ heard["handleStateChange"].state # Null
  /\ heard["handleStateChange"].state.isPlaying

\* updateVisualizationData of a render whose isVisualizationActive is
\* active: the data of the engine are stored and the next frame requested
UpdateVisualizationData(p, active, freqData, waveData) ==
  IF ~active THEN p
  ELSE [p EXCEPT !.frequencyData = freqData, !.waveformData = waveData,
                 !.animationFrame = [isVisualizationActive |-> active]]

\* startVisualization of a render whose isVisualizationActive is active
StartVisualization(p, active, freqData, waveData) ==
  IF active THEN p
  ELSE UpdateVisualizationData([p EXCEPT !.isVisualizationActive = TRUE],
                               active, freqData, waveData)

\* stopVisualization of a render whose isVisualizationActive is active
StopVisualization(p, active) ==
  IF ~active THEN p
  ELSE [p EXCEPT !.isVisualizationActive = FALSE, !.animationFrame = Null,
                 !.frequencyData = Null, !.waveformData = Null]

InitProvider ==
  /\ Constructed(MapConfig)
  /\ frequencyData = <<>>
  /\ logarithmic = <<>>
  /\ binIndex = <<>>
  /\ hist = <<>>
  /\ steps = 0
  /\ lastData = <<>>
  /\ stepInput = <<>>
  /\ twin = <<>>
  /\ audioElement = Null
  /\ gainNode = Null
  /\ enginePeaks = InitializePeaks
  /\ playPromise = "none"
  /\ reported = Null
  /\ stateListeners = {"handleStateChange"}
  /\ heard = [l \in Listeners |->
               [calls |-> 0, state |-> Null,
                added |-> IF l = "handleStateChange" THEN 1 ELSE 0]]
  /\ PageIdle
  /\ provider = ProviderIdle

\* the start/stop effect of the render with the present audioState.isPlaying
\* and isVisualizationActive; what the engine would return is passed on (a
\* call that reaches the engine finds it as getFrequencyData does)
ProviderEffect ==
  \E snapshot \in EngineSnapshots, wave \in EngineWaveforms :
    LET isPlaying == AudioStateIsPlaying
        active == provider.isVisualizationActive
        freqData == IF gainNode = Null THEN Null
                    ELSE [raw |-> snapshot,
                          logarithmic |-> EngineBands[snapshot].values]
        waveData == IF gainNode = Null THEN Null ELSE [raw |-> wave]
        ran == [provider EXCEPT !.deps = <<isPlaying, active>>]
    IN /\ provider.deps # <<isPlaying, active>>
       /\ provider' =
            IF isPlaying /\ ~active
            THEN StartVisualization(ran, active, freqData, waveData)
            ELSE IF ~isPlaying /\ active THEN StopVisualization(ran, active)
            ELSE ran
       /\ UNCHANGED <<mgrVars, out, engineVars, hist, steps, lastData,
                      stepInput, twin, playerVars, visualizerType, canvas,
                      vizState, wmpVisualizer, controls, audioElementRef,
                      analyserRef, loopVars, console, effects, slider>>

NextProvider ==
  \/ LoadAudio
  \/ Loadeddata
  \/ PlayCall
  \/ PlayResolved
  \/ TimeAdvance
  \/ PauseCall
  \/ StopCall
  \/ SetVolume
  \/ Seek
  \/ ProviderEffect

SpecProvider == InitProvider /\ [][NextProvider]_vars

\* SpecProviderFair: the effect runs after every render that changed its
\* dependencies
SpecProviderFair == SpecProvider /\ WF_vars(ProviderEffect)

(***************************************************************************)
(* Properties of the provider's visualization data (SpecProviderFair).     *)
(***************************************************************************)
\* C37: once audioState.isPlaying is true with the audio graph of the
\* engine set up, frequencyData and waveformData of the provider eventually
\* are not null (unless isPlaying has become false before).
C37_DataLive ==
  (AudioStateIsPlaying /\ gainNode # Null)
    ~> \/ (provider.frequencyData # Null /\ provider.waveformData # Null)
       \/ ~AudioStateIsPlaying

====
